---- MODULE Spec2Model ----
(***************************************************************************)
(* A model of the markdown import pipeline of datacore                     *)
(* (src/src/index/import/markdown.ts): markdownImport as a sequence of     *)
(* passes over the host's hints, and parseFrontmatter as a pure function.  *)
(*                                                                         *)
(* Lines are 0-indexed in the source; the sequence "lines" is 1-indexed,   *)
(* so source line L is lines[L + 1].  A line is represented by its kind,   *)
(* which is all the import reads of it.                                    *)
(***************************************************************************)
EXTENDS Integers, Sequences, FiniteSets, TLC

VARIABLES
    pc,            \* position inside markdownImport (or "coerce"/"coerced" for parseFrontmatter)
    lines,         \* markdown.split("\n"), each line by kind
    metadata,      \* the host's CachedMetadata (headings are sorted in place)
    page,          \* PageData under construction
    sections,      \* BTree start line -> index of the SectionData in page.sections
    blocks,        \* BTree start line -> BlockData
    blockOrdinal,  \* the page-wide block counter
    blockIndex,    \* number of block hints consumed by the classification loop
    listItems,     \* BTree start line -> ListItemData
    error,         \* the exception that left markdownImport, "" if none
    result,        \* the JsonMarkdownPage returned by page.build(), NoPage before
    response,      \* the ImportResult handed back to the caller
    value,         \* parseFrontmatter: the argument
    coerced,       \* parseFrontmatter: the value returned
    requests,      \* the ImportCommands posted to the import worker, in order
    responses,     \* the ImportResults the worker has posted back, in order
    view,          \* DatacoreQueryView: its renderers, its children and its state
    state,         \* filterReducer: the FilterState
    action,        \* filterReducer: the FilterAction dispatched last
    group,         \* filterInGroup: the argument group
    predicate,     \* filterInGroup: the rows the argument predicate accepts
    filtered       \* filterInGroup: the value returned

\* The state of the user interface components.
uiVars == <<view, state, action, group, predicate, filtered>>

vars == <<pc, lines, metadata, page, sections, blocks, blockOrdinal, blockIndex,
          listItems, error, result, response, value, coerced, requests, responses,
          uiVars>>

(***************************************************************************)
(* Bounds of the model.                                                    *)
(***************************************************************************)
MaxLines == 2
MaxHeadings == 2
MaxBlocks == 2
MaxDataBlocks == 1
MaxItems == 2
MaxLen == 2

(***************************************************************************)
(* Generic helpers.                                                        *)
(***************************************************************************)
SeqsUpTo(S, n) == UNION {[1..k -> S] : k \in 0..n}

Range(s) == {s[i] : i \in 1..Len(s)}

Min(S) == CHOOSE x \in S : \A y \in S : x <= y

Max(S) == CHOOSE x \in S : \A y \in S : y <= x

\* BTree.set(key, v)
TreeSet(tree, key, v) == [k \in (DOMAIN tree) \cup {key} |-> IF k = key THEN v ELSE tree[k]]

\* BTree.getPairOrNextLower(line): the greatest key <= line, -1 if there is none
FloorKey(tree, line) ==
    LET below == {k \in DOMAIN tree : k <= line}
    IN IF below = {} THEN -1 ELSE Max(below)

(***************************************************************************)
(* Builder records (Metadata, SectionData, PageData).                      *)
(***************************************************************************)
NewMetadata == [tags |-> {}, links |-> <<>>, inlineFields |-> <<>>]

SectionData(start, end, title, level, ordinal) ==
    [start |-> start, end |-> end, title |-> title, level |-> level,
     ordinal |-> ordinal, blocks |-> <<>>, metadata |-> NewMetadata]

PageData(length) == [sections |-> <<>>, metadata |-> NewMetadata, length |-> length]

NoPage == [built |-> FALSE]


\* getFileTitle(path), the title of the implicit section
FileTitle == "file"

(***************************************************************************)
(* Sections.                                                               *)
(***************************************************************************)
\* line.trim() === ""
IsBlank(line) == line \in {"", "  "}

\* A variant of emptylines that looks at the first line of the range only.
emptylinesFirstLineOnly(ls, start, end) ==
    IF start >= end THEN "true"
    ELSE IF start >= Len(ls) THEN "throw"
    ELSE IF IsBlank(ls[start + 1]) THEN "true" ELSE "false"

\* emptylines(lines, start, end): "true", "false", or "throw" when the scan
\* reaches a line past the end of the file (lines[index] is undefined and
\* undefined.trim() raises a TypeError).
RECURSIVE emptylines(_, _, _)
emptylines(ls, start, end) ==
    IF start >= end THEN "true"
    ELSE IF start >= Len(ls) THEN "throw"
    ELSE IF ~IsBlank(ls[start + 1]) THEN "false"
    ELSE emptylines(ls, start + 1, end)

\* metaheadings.sort((a, b) => a.position.start.line - b.position.start.line):
\* a stable sort by start line.
RECURSIVE InsertHeading(_, _)
InsertHeading(sorted, h) ==
    IF sorted = <<>> THEN <<h>>
    ELSE IF Head(sorted).line <= h.line
         THEN <<Head(sorted)>> \o InsertHeading(Tail(sorted), h)
         ELSE <<h>> \o sorted

\* A variant of SortHeadings that leaves the headings in the host's order.
SortHeadingsKeepingOrder(hs) == hs

RECURSIVE SortHeadings(_)
SortHeadings(hs) ==
    IF hs = <<>> THEN <<>>
    ELSE InsertHeading(SortHeadings(SubSeq(hs, 1, Len(hs) - 1)), hs[Len(hs)])

\* A variant of HeadingEnd that ends every section at the end of the file.
HeadingEndAlwaysFileEnd(hs, index, fileLength) == fileLength

\* The end line of the section of the heading at index (1-based here).
HeadingEnd(hs, index, fileLength) ==
    IF index = Len(hs) THEN fileLength ELSE hs[index + 1].line

\* The loop over the sorted headings: page.sections after it.
HeadingSections(hs, fileLength) ==
    [i \in 1..Len(hs) |->
        SectionData(hs[i].line, HeadingEnd(hs, i, fileLength), hs[i].heading, hs[i].level, i)]

\* The sections BTree after the loop: a later heading with the same start line
\* replaces the earlier one under that key.
HeadingTree(hs) ==
    [k \in {hs[i].line : i \in 1..Len(hs)} |-> Max({i \in 1..Len(hs) : hs[i].line = k})]

\* A variant of ImplicitSection that does not look at the lines of a file
\* without headings.
ImplicitSectionWithoutBlankTest(ls, tree, secs) ==
    IF DOMAIN tree = {}
    THEN [verdict |-> "add", section |-> SectionData(0, Len(ls), FileTitle, 1, 0)]
    ELSE LET first == secs[tree[Min(DOMAIN tree)]]
             e == IF first.start > 0 THEN emptylines(ls, 0, first.start) ELSE "true"
         IN [verdict |-> IF e = "false" THEN "add" ELSE IF e = "true" THEN "none" ELSE "throw",
             section |-> SectionData(0, first.start, FileTitle, 1, 0)]

\* A variant of ImplicitSection that lets the section before the first heading
\* run to the end of the file.
ImplicitSectionToFileEnd(ls, tree, secs) ==
    IF DOMAIN tree = {}
    THEN LET e == emptylines(ls, 0, Len(ls))
         IN [verdict |-> IF e = "false" THEN "add" ELSE IF e = "true" THEN "none" ELSE "throw",
             section |-> SectionData(0, Len(ls), FileTitle, 1, 0)]
    ELSE LET first == secs[tree[Min(DOMAIN tree)]]
             e == IF first.start > 0 THEN emptylines(ls, 0, first.start) ELSE "true"
         IN [verdict |-> IF e = "false" THEN "add" ELSE IF e = "true" THEN "none" ELSE "throw",
             section |-> SectionData(0, Len(ls), FileTitle, 1, 0)]

\* The implicit section to add, as <<verdict, section>>: verdict is "add",
\* "none" or "throw".
ImplicitSection(ls, tree, secs) ==
    IF DOMAIN tree = {}
    THEN LET e == emptylines(ls, 0, Len(ls))
         IN [verdict |-> IF e = "false" THEN "add" ELSE IF e = "true" THEN "none" ELSE "throw",
             section |-> SectionData(0, Len(ls), FileTitle, 1, 0)]
    ELSE LET first == secs[tree[Min(DOMAIN tree)]]
             e == IF first.start > 0 THEN emptylines(ls, 0, first.start) ELSE "true"
         IN [verdict |-> IF e = "false" THEN "add" ELSE IF e = "true" THEN "none" ELSE "throw",
             section |-> SectionData(0, first.start, FileTitle, 1, 0)]

\* page.section(section): push at the end of page.sections
PageSection(p, section) == [p EXCEPT !.sections = Append(@, section)]

Sections ==
    /\ pc = "sections"
    /\ LET hs == SortHeadings(metadata.headings)
           secs == HeadingSections(hs, Len(lines))
           tree == HeadingTree(hs)
           imp == ImplicitSection(lines, tree, secs)
           p0 == [PageData(Len(lines)) EXCEPT !.sections = secs]
       IN /\ metadata' = [metadata EXCEPT !.headings = hs]
          /\ IF imp.verdict = "throw"
             THEN /\ pc' = "failed"
                  /\ error' = "TypeError"
                  /\ page' = p0
                  /\ sections' = tree
             ELSE /\ pc' = "blocks"
                  /\ error' = error
                  /\ page' = IF imp.verdict = "add" THEN PageSection(p0, imp.section) ELSE p0
                  /\ sections' = IF imp.verdict = "add"
                                 THEN TreeSet(tree, 0, Len(secs) + 1)
                                 ELSE tree
    /\ UNCHANGED <<lines, blocks, blockOrdinal, blockIndex, listItems, result, response,
                   value, coerced,
                   requests, responses,
                   uiVars>>

(***************************************************************************)
(* Blocks.                                                                 *)
(***************************************************************************)
\* lines[start]; "undefined" past the end of the file
LineAt(ls, start) == IF start < Len(ls) THEN ls[start + 1] ELSE "undefined"

\* YAML_DATA_REGEX.test(startLine), case-insensitive; the string "undefined",
\* which test() makes of a missing line, does not match. A code fence of three
\* backquotes is written <fence> in the lines of the model.
IsYamlData(line) == line \in {"<fence>yaml:data", "<fence>YAML:DATA"}

\* startLine.match(CODEBLOCK_FENCE_REGEX): the line starts with a fence
IsFence(line) == line \in {"<fence>", "<fence>js", "~~~", "<fence>yaml:data", "<fence>YAML:DATA"}

\* lines.slice(start + 1, end): the lines start+1 .. end-1, cut at the end of the file
Slice(ls, from, to) ==
    LET hi == IF to < Len(ls) THEN to ELSE Len(ls)
    IN IF from >= hi THEN <<>> ELSE SubSeq(ls, from + 1, hi)

\* parseYaml(yaml) of the yaml package, on the joined body lines: "throw" for a
\* document that is not valid YAML, else the shape of the value: "null" for an
\* empty document, "map" for key: value lines, "scalar" for plain text.
ParseYaml(body) ==
    LET content == {body[i] : i \in {j \in 1..Len(body) : ~IsBlank(body[j])}}
    IN IF content = {} THEN "null"
       ELSE IF content \subseteq {"a: 1", "a:: 1", "A:: 2", "b:: 3"} THEN "map"
       ELSE IF content \subseteq {"text"} THEN "scalar"
       ELSE "throw"

\* parseFrontmatterBlock(block) on the value parseYaml returned: Object.keys(null)
\* raises a TypeError; a map yields its entries; a string yields one entry per
\* character.
ParseFrontmatterBlock(parsed) ==
    IF parsed = "null" THEN "throw" ELSE IF parsed = "map" THEN "entries" ELSE "characters"

\* A variant of BlockData that gives every block the first ordinal.
BlockDataFirstOrdinal(type, start, end, ordinal) ==
    [type |-> type, start |-> start, end |-> end, ordinal |-> 1,
     metadata |-> NewMetadata, items |-> <<>>, style |-> "", contentStart |-> -1,
     contentEnd |-> -1, data |-> ""]

BlockData(type, start, end, ordinal) ==
    [type |-> type, start |-> start, end |-> end, ordinal |-> ordinal,
     metadata |-> NewMetadata, items |-> <<>>, style |-> "", contentStart |-> -1,
     contentEnd |-> -1, data |-> ""]

\* A variant of DataBlock that leaves out a block whose body does not parse.
DataBlockSkippingBadYaml(base, parsed) ==
    LET none == [verdict |-> "skip", error |-> "", block |-> base]
    IN IF parsed = "throw" THEN none
       ELSE IF ParseFrontmatterBlock(parsed) = "throw"
       THEN [none EXCEPT !.verdict = "throw", !.error = "TypeError"]
       ELSE [none EXCEPT !.verdict = "block", !.block.type = "datablock",
                         !.block.data = ParseFrontmatterBlock(parsed)]

\* The yaml:data branch, given what parseYaml made of the body: neither the
\* exception of parseYaml nor that of parseFrontmatterBlock is caught.
DataBlock(base, parsed) ==
    LET none == [verdict |-> "skip", error |-> "", block |-> base]
    IN IF parsed = "throw"
       THEN [none EXCEPT !.verdict = "throw", !.error = "YAMLParseError"]
       ELSE IF ParseFrontmatterBlock(parsed) = "throw"
       THEN [none EXCEPT !.verdict = "throw", !.error = "TypeError"]
       ELSE [none EXCEPT !.verdict = "block", !.block.type = "datablock",
                         !.block.data = ParseFrontmatterBlock(parsed)]

\* A variant of CodeBlock whose fenced content runs to the end of the block.
CodeBlockContentToEnd(base, startLine) ==
    LET none == [verdict |-> "skip", error |-> "", block |-> base]
    IN IF startLine = "undefined"
       THEN [none EXCEPT !.verdict = "throw", !.error = "TypeError"]
       ELSE IF ~IsFence(startLine)
       THEN [none EXCEPT !.verdict = "block", !.block.type = "codeblock",
                         !.block.style = "indent", !.block.contentStart = base.start,
                         !.block.contentEnd = base.end]
       ELSE [none EXCEPT !.verdict = "block", !.block.type = "codeblock",
                         !.block.style = "fenced", !.block.contentStart = base.start + 1,
                         !.block.contentEnd = base.end]

\* The code branch: startLine.match raises a TypeError when the hint's start
\* line is past the end of the file.
CodeBlock(base, startLine) ==
    LET none == [verdict |-> "skip", error |-> "", block |-> base]
    IN IF startLine = "undefined"
       THEN [none EXCEPT !.verdict = "throw", !.error = "TypeError"]
       ELSE IF ~IsFence(startLine)
       THEN [none EXCEPT !.verdict = "block", !.block.type = "codeblock",
                         !.block.style = "indent", !.block.contentStart = base.start,
                         !.block.contentEnd = base.end]
       ELSE [none EXCEPT !.verdict = "block", !.block.type = "codeblock",
                         !.block.style = "fenced", !.block.contentStart = base.start + 1,
                         !.block.contentEnd = base.end - 1]

\* A variant of Classify that makes a block of a heading hint, too.
ClassifyHeadingsAsBlocks(hint, ls, ordinal) ==
    LET startLine == LineAt(ls, hint.start)
        base == BlockData(hint.type, hint.start, hint.end, ordinal)
        none == [verdict |-> "skip", error |-> "", block |-> base]
    IN IF hint.type = "list"
       THEN [none EXCEPT !.verdict = "block", !.block.type = "list"]
       ELSE IF hint.type = "code" /\ IsYamlData(startLine)
       THEN DataBlock(base, ParseYaml(Slice(ls, hint.start + 1, hint.end)))
       ELSE IF hint.type = "code"
       THEN CodeBlock(base, startLine)
       ELSE [none EXCEPT !.verdict = "block"]

\* One iteration of the loop over metadata.sections: verdict "skip" (a heading),
\* "block" (blocks.set(start, block), blockOrdinal++) or "throw".
Classify(hint, ls, ordinal) ==
    LET startLine == LineAt(ls, hint.start)
        base == BlockData(hint.type, hint.start, hint.end, ordinal)
        none == [verdict |-> "skip", error |-> "", block |-> base]
    IN IF hint.type = "heading" THEN none
       ELSE IF hint.type = "list"
       THEN [none EXCEPT !.verdict = "block", !.block.type = "list"]
       ELSE IF hint.type = "code" /\ IsYamlData(startLine)
       THEN DataBlock(base, ParseYaml(Slice(ls, hint.start + 1, hint.end)))
       ELSE IF hint.type = "code"
       THEN CodeBlock(base, startLine)
       ELSE [none EXCEPT !.verdict = "block"]

ClassifyBlock ==
    /\ pc = "blocks"
    /\ blockIndex < Len(metadata.sections)
    /\ LET out == Classify(metadata.sections[blockIndex + 1], lines, blockOrdinal)
       IN /\ blockIndex' = blockIndex + 1
          /\ pc' = IF out.verdict = "throw" THEN "failed" ELSE "blocks"
          /\ error' = out.error
          /\ blocks' = IF out.verdict = "block"
                       THEN TreeSet(blocks, out.block.start, out.block)
                       ELSE blocks
          /\ blockOrdinal' = IF out.verdict = "block" THEN blockOrdinal + 1 ELSE blockOrdinal
    /\ UNCHANGED <<lines, metadata, page, sections, listItems, result, response,
                   value, coerced,
                   requests, responses,
                   uiVars>>

\* A variant of lookup that takes the end line as part of the element.
lookupInclusiveEnd(line, ends) ==
    LET target == FloorKey(ends, line)
    IN IF target # -1 /\ ends[target] >= line THEN target ELSE -1

\* lookup(line, tree): the key of the element with the greatest start <= line
\* if its end is > line, else -1 (undefined). "ends" maps each key of the tree
\* to the end of its element.
lookup(line, ends) ==
    LET target == FloorKey(ends, line)
    IN IF target # -1 /\ ends[target] > line THEN target ELSE -1

SectionEnds(p, tree) == [k \in DOMAIN tree |-> p.sections[tree[k]].end]

\* A variant of AttachAll that gives every block to the first section.
RECURSIVE AttachAllToFirstSection(_, _, _, _)
AttachAllToFirstSection(p, tree, blks, keys) ==
    IF keys = {} \/ DOMAIN tree = {} THEN p
    ELSE LET k == Min(keys)
             q == [p EXCEPT !.sections[tree[Min(DOMAIN tree)]].blocks = Append(@, k)]
         IN AttachAllToFirstSection(q, tree, blks, keys \ {k})

\* for (const block of blocks.values()) lookup(block.start, sections)?.block(block):
\* the blocks with keys in "keys", in ascending key order.
RECURSIVE AttachAll(_, _, _, _)
AttachAll(p, tree, blks, keys) ==
    IF keys = {} THEN p
    ELSE LET k == Min(keys)
             s == lookup(blks[k].start, SectionEnds(p, tree))
             q == IF s = -1 THEN p
                  ELSE [p EXCEPT !.sections[tree[s]].blocks = Append(@, k)]
         IN AttachAll(q, tree, blks, keys \ {k})

AttachBlocks ==
    /\ pc = "blocks"
    /\ blockIndex = Len(metadata.sections)
    /\ page' = AttachAll(page, sections, blocks, DOMAIN blocks)
    /\ pc' = "lists"
    /\ UNCHANGED <<lines, metadata, sections, blocks, blockOrdinal, blockIndex, listItems,
                   error, result, response, value, coerced,
                   requests, responses,
                   uiVars>>

(***************************************************************************)
(* Lists.                                                                  *)
(***************************************************************************)
ListItemData(start, end, parentLine, status) ==
    [start |-> start, end |-> end, parentLine |-> parentLine, status |-> status,
     elements |-> <<>>, metadata |-> NewMetadata]

\* The first list pass: one ListItemData per hint, listItems.set(item.start, item).
RECURSIVE FirstListPass(_, _)
FirstListPass(tree, hints) ==
    IF hints = <<>> THEN tree
    ELSE LET h == Head(hints)
         IN FirstListPass(TreeSet(tree, h.start, ListItemData(h.start, h.end, h.parent, h.task)),
                          Tail(hints))

ListPass1 ==
    /\ pc = "lists"
    /\ listItems' = FirstListPass(listItems, metadata.listItems)
    /\ pc' = "hierarchy"
    /\ UNCHANGED <<lines, metadata, page, sections, blocks, blockOrdinal, blockIndex,
                   error, result, response, value, coerced,
                   requests, responses,
                   uiVars>>

\* A variant of LinkItem that reads a parent reference without its sign when a
\* list block starts at that line.
LinkItemIgnoringSign(blks, items, k) ==
    LET parentLine == items[k].parentLine
        line == IF parentLine < 0 THEN -parentLine ELSE parentLine
    IN IF line \in DOMAIN blks /\ blks[line].type = "list"
       THEN <<[blks EXCEPT ![line].items = Append(@, k)], items>>
       ELSE IF parentLine >= 0 /\ parentLine \in DOMAIN items
            THEN <<blks, [items EXCEPT ![parentLine].elements = Append(@, k)]>>
            ELSE <<blks, items>>

\* A variant of LinkItem that does not look at the type of the block a negative
\* parent reference names.
LinkItemAnyBlock(blks, items, k) ==
    LET parentLine == items[k].parentLine
    IN IF parentLine < 0
       THEN IF (-parentLine) \in DOMAIN blks
            THEN <<[blks EXCEPT ![-parentLine].items = Append(@, k)], items>>
            ELSE <<blks, items>>
       ELSE IF parentLine \in DOMAIN items
            THEN <<blks, [items EXCEPT ![parentLine].elements = Append(@, k)]>>
            ELSE <<blks, items>>

\* A variant of LinkItem that makes an item with a non-negative parent
\* reference a top-level item, too, of a list block starting at that line.
LinkItemAlsoTopLevel(blks, items, k) ==
    LET parentLine == items[k].parentLine
    IN IF parentLine < 0
       THEN IF (-parentLine) \in DOMAIN blks /\ blks[-parentLine].type = "list"
            THEN <<[blks EXCEPT ![-parentLine].items = Append(@, k)], items>>
            ELSE <<blks, items>>
       ELSE IF parentLine \in DOMAIN items
            THEN <<IF parentLine \in DOMAIN blks /\ blks[parentLine].type = "list"
                   THEN [blks EXCEPT ![parentLine].items = Append(@, k)]
                   ELSE blks,
                   [items EXCEPT ![parentLine].elements = Append(@, k)]>>
            ELSE <<blks, items>>

\* A variant of LinkItem that reads a parent reference of 0 as the list block
\* starting at line 0.
LinkItemZeroAsBlock(blks, items, k) ==
    LET parentLine == items[k].parentLine
    IN IF parentLine <= 0
       THEN IF (-parentLine) \in DOMAIN blks /\ blks[-parentLine].type = "list"
            THEN <<[blks EXCEPT ![-parentLine].items = Append(@, k)], items>>
            ELSE <<blks, items>>
       ELSE IF parentLine \in DOMAIN items
            THEN <<blks, [items EXCEPT ![parentLine].elements = Append(@, k)]>>
            ELSE <<blks, items>>

\* One iteration of the second list pass, for the item under key k: the new
\* <<blocks, listItems>>.
LinkItem(blks, items, k) ==
    LET parentLine == items[k].parentLine
    IN IF parentLine < 0
       THEN IF (-parentLine) \in DOMAIN blks /\ blks[-parentLine].type = "list"
            THEN <<[blks EXCEPT ![-parentLine].items = Append(@, k)], items>>
            ELSE <<blks, items>>
       ELSE IF parentLine \in DOMAIN items
            THEN <<blks, [items EXCEPT ![parentLine].elements = Append(@, k)]>>
            ELSE <<blks, items>>

\* A variant of SecondListPass that takes the items from the last start line
\* to the first.
RECURSIVE SecondListPassDescending(_, _, _)
SecondListPassDescending(blks, items, keys) ==
    IF keys = {} THEN <<blks, items>>
    ELSE LET k == Max(keys)
             next == LinkItem(blks, items, k)
         IN SecondListPassDescending(next[1], next[2], keys \ {k})

\* for (const item of listItems.values()): ascending key order.
RECURSIVE SecondListPass(_, _, _)
SecondListPass(blks, items, keys) ==
    IF keys = {} THEN <<blks, items>>
    ELSE LET k == Min(keys)
             next == LinkItem(blks, items, k)
         IN SecondListPass(next[1], next[2], keys \ {k})

ListPass2 ==
    /\ pc = "hierarchy"
    /\ LET out == SecondListPass(blocks, listItems, DOMAIN listItems)
       IN /\ blocks' = out[1]
          /\ listItems' = out[2]
    /\ pc' = "tags"
    /\ UNCHANGED <<lines, metadata, page, sections, blockOrdinal, blockIndex,
                   error, result, response, value, coerced,
                   requests, responses,
                   uiVars>>

(***************************************************************************)
(* Metadata: tags, links and inline fields of one node.                    *)
(***************************************************************************)
\* key.toLowerCase(), on the keys the model uses
Lower(key) == IF key = "A" THEN "a" ELSE IF key = "B" THEN "b" ELSE key

\* Metadata.tag
MetaTag(m, tag) == [m EXCEPT !.tags = @ \cup {tag}]

\* Metadata.link: an equal link is not added twice
MetaLink(m, link) ==
    IF \E i \in 1..Len(m.links) : m.links[i] = link THEN m
    ELSE [m EXCEPT !.links = Append(@, link)]

\* A variant of MetaInlineField in which the last field of a key is the one kept.
MetaInlineFieldLastWins(m, field) ==
    LET entry == [lower |-> Lower(field.key), field |-> field]
    IN IF \E i \in 1..Len(m.inlineFields) : Lower(m.inlineFields[i].lower) = Lower(field.key)
       THEN [m EXCEPT !.inlineFields =
                [i \in 1..Len(@) |-> IF Lower(@[i].lower) = Lower(field.key) THEN entry ELSE @[i]]]
       ELSE [m EXCEPT !.inlineFields = Append(@, entry)]

\* Metadata.inlineField: the field is stored under its lowercased key unless a
\* key equal to it is already there
MetaInlineField(m, field) ==
    IF \E i \in 1..Len(m.inlineFields) : Lower(m.inlineFields[i].lower) = Lower(field.key) THEN m
    ELSE [m EXCEPT !.inlineFields = Append(@, [lower |-> Lower(field.key), field |-> field])]

BlockEnds(blks) == [k \in DOMAIN blks |-> blks[k].end]

ItemEnds(items) == [k \in DOMAIN items |-> items[k].end]

\* A variant of Attach that leaves the page out.
AttachNodesOnly(st, tree, line, kind, item) ==
    LET Add(m) == CASE kind = "tag" -> MetaTag(m, item)
                    [] kind = "link" -> MetaLink(m, item)
                    [] OTHER -> MetaInlineField(m, item)
        s == lookup(line, SectionEnds(st.page, tree))
        b == lookup(line, BlockEnds(st.blocks))
        i == lookup(line, ItemEnds(st.listItems))
        p1 == st.page
    IN [page |-> IF s = -1 THEN p1 ELSE [p1 EXCEPT !.sections[tree[s]].metadata = Add(@)],
        blocks |-> IF b = -1 THEN st.blocks ELSE [st.blocks EXCEPT ![b].metadata = Add(@)],
        listItems |-> IF i = -1 THEN st.listItems
                      ELSE [st.listItems EXCEPT ![i].metadata = Add(@)]]

\* The body shared by the tag, link and inline field loops: the item found at
\* "line" is added to the page, and to the section, block and list item that
\* lookup finds for the line. st is [page, blocks, listItems].
Attach(st, tree, line, kind, item) ==
    LET Add(m) == CASE kind = "tag" -> MetaTag(m, item)
                    [] kind = "link" -> MetaLink(m, item)
                    [] OTHER -> MetaInlineField(m, item)
        s == lookup(line, SectionEnds(st.page, tree))
        b == lookup(line, BlockEnds(st.blocks))
        i == lookup(line, ItemEnds(st.listItems))
        p1 == [st.page EXCEPT !.metadata = Add(@)]
    IN [page |-> IF s = -1 THEN p1 ELSE [p1 EXCEPT !.sections[tree[s]].metadata = Add(@)],
        blocks |-> IF b = -1 THEN st.blocks ELSE [st.blocks EXCEPT ![b].metadata = Add(@)],
        listItems |-> IF i = -1 THEN st.listItems
                      ELSE [st.listItems EXCEPT ![i].metadata = Add(@)]]

Builders == [page |-> page, blocks |-> blocks, listItems |-> listItems]

\* tagdef.tag.startsWith("#") ? tagdef.tag : "#" + tagdef.tag
NormalizeTag(tag) == IF tag \in {"#x", "#y"} THEN tag ELSE "#" \o tag

RECURSIVE AttachTags(_, _, _)
AttachTags(st, tree, defs) ==
    IF defs = <<>> THEN st
    ELSE AttachTags(Attach(st, tree, Head(defs).line, "tag",
                           NormalizeTag(Head(defs).tag)),
                    tree, Tail(defs))

Tags ==
    /\ pc = "tags"
    /\ LET st == AttachTags(Builders, sections, metadata.tags)
       IN /\ page' = st.page
          /\ blocks' = st.blocks
          /\ listItems' = st.listItems
    /\ pc' = "links"
    /\ UNCHANGED <<lines, metadata, sections, blockOrdinal, blockIndex,
                   error, result, response, value, coerced,
                   requests, responses,
                   uiVars>>

\* Link.infer(link, embed, display), as the path and the display text it keeps
LinkInfer(link, display) == [path |-> link, display |-> display]

RECURSIVE AttachLinks(_, _, _)
AttachLinks(st, tree, defs) ==
    IF defs = <<>> THEN st
    ELSE AttachLinks(Attach(st, tree, Head(defs).line, "link",
                            LinkInfer(Head(defs).link, "")),
                     tree, Tail(defs))

Links ==
    /\ pc = "links"
    /\ LET st == AttachLinks(Builders, sections, metadata.links)
       IN /\ page' = st.page
          /\ blocks' = st.blocks
          /\ listItems' = st.listItems
    /\ pc' = "frontmatterLinks"
    /\ UNCHANGED <<lines, metadata, sections, blockOrdinal, blockIndex,
                   error, result, response, value, coerced,
                   requests, responses,
                   uiVars>>

RECURSIVE PageLinks(_, _)
PageLinks(m, defs) ==
    IF defs = <<>> THEN m
    ELSE PageLinks(MetaLink(m, LinkInfer(Head(defs).link, Head(defs).displayText)), Tail(defs))

\* A variant of FrontmatterLinks that treats the front-of-file links as links
\* found on line 0.
FrontmatterLinksOnNodes ==
    /\ pc = "frontmatterLinks"
    /\ LET defs == [i \in 1..Len(metadata.frontmatterLinks) |->
                       [link |-> metadata.frontmatterLinks[i].link, line |-> 0]]
           st == AttachLinks(Builders, sections, defs)
       IN /\ page' = st.page
          /\ blocks' = st.blocks
          /\ listItems' = st.listItems
    /\ pc' = "inlineFields"
    /\ UNCHANGED <<lines, metadata, sections, blockOrdinal, blockIndex,
                   error, result, response, value, coerced,
                   requests, responses,
                   uiVars>>

FrontmatterLinks ==
    /\ pc = "frontmatterLinks"
    /\ page' = [page EXCEPT !.metadata = PageLinks(@, metadata.frontmatterLinks)]
    /\ pc' = "inlineFields"
    /\ UNCHANGED <<lines, metadata, sections, blocks, blockOrdinal, blockIndex, listItems,
                   error, result, response, value, coerced,
                   requests, responses,
                   uiVars>>

\* The ceiling on the length of a line scanned for inline fields
LineCeiling == 32768

\* line.length, on the lines the model uses
LineLength(line) == IF line = "long a:: 1" THEN LineCeiling + 1 ELSE 16

\* line.includes("::")
HasDelimiter(line) == line \in {"a:: 1", "A:: 2", "b:: 3", "[a:: 1] [A:: 2]", "long a:: 1"}

\* extractInlineFields(line), or the one field of extractFullLineField(line) when
\* it finds none: the fields of the line as <<key, value>>, in the order found
ExtractFields(line) ==
    IF line = "a:: 1" THEN << <<"a", "1">> >>
    ELSE IF line = "A:: 2" THEN << <<"A", "2">> >>
    ELSE IF line = "b:: 3" THEN << <<"b", "3">> >>
    ELSE IF line = "[a:: 1] [A:: 2]" THEN << <<"a", "1">>, <<"A", "2">> >>
    ELSE IF line = "long a:: 1" THEN << <<"a", "1">> >>
    ELSE <<>>

\* iterateInlineFields(content): the fields of all lines from line "lineno" on
RECURSIVE iterateInlineFields(_, _)
iterateInlineFields(content, lineno) ==
    IF lineno >= Len(content) THEN <<>>
    ELSE LET line == content[lineno + 1]
             found == IF LineLength(line) > LineCeiling \/ ~HasDelimiter(line) THEN <<>>
                      ELSE ExtractFields(line)
         IN [i \in 1..Len(found) |->
                [key |-> found[i][1], value |-> found[i][2], line |-> lineno, index |-> i]]
            \o iterateInlineFields(content, lineno + 1)

RECURSIVE AttachFields(_, _, _)
AttachFields(st, tree, fields) ==
    IF fields = <<>> THEN st
    ELSE AttachFields(Attach(st, tree, Head(fields).line, "field",
                             Head(fields)),
                      tree, Tail(fields))

InlineFields ==
    /\ pc = "inlineFields"
    /\ LET st == AttachFields(Builders, sections, iterateInlineFields(lines, 0))
       IN /\ page' = st.page
          /\ blocks' = st.blocks
          /\ listItems' = st.listItems
    /\ pc' = "build"
    /\ UNCHANGED <<lines, metadata, sections, blockOrdinal, blockIndex,
                   error, result, response, value, coerced,
                   requests, responses,
                   uiVars>>

(***************************************************************************)
(* page.build(): the serialized record.                                    *)
(***************************************************************************)
\* ListItemData.build
RECURSIVE BuildItem(_, _)
BuildItem(items, k) ==
    [parentLine |-> items[k].parentLine,
     position |-> [start |-> items[k].start, end |-> items[k].end],
     elements |-> [i \in 1..Len(items[k].elements) |-> BuildItem(items, items[k].elements[i])],
     type |-> IF items[k].status # "" THEN "task" ELSE "list",
     metadata |-> items[k].metadata,
     status |-> items[k].status]

\* A variant of BuildBlock that reports the block one line longer.
BuildBlockOneLineLonger(blks, items, k) ==
    [type |-> blks[k].type,
     ordinal |-> blks[k].ordinal,
     position |-> [start |-> blks[k].start, end |-> blks[k].end + 1],
     metadata |-> blks[k].metadata,
     elements |-> [i \in 1..Len(blks[k].items) |-> BuildItem(items, blks[k].items[i])],
     style |-> blks[k].style,
     contentPosition |-> [start |-> blks[k].contentStart, end |-> blks[k].contentEnd],
     data |-> blks[k].data]

\* The build method of ListBlockData, CodeblockData, DatablockData and BaseBlockData
BuildBlock(blks, items, k) ==
    [type |-> blks[k].type,
     ordinal |-> blks[k].ordinal,
     position |-> [start |-> blks[k].start, end |-> blks[k].end],
     metadata |-> blks[k].metadata,
     elements |-> [i \in 1..Len(blks[k].items) |-> BuildItem(items, blks[k].items[i])],
     style |-> blks[k].style,
     contentPosition |-> [start |-> blks[k].contentStart, end |-> blks[k].contentEnd],
     data |-> blks[k].data]

\* SectionData.build
BuildSection(section, blks, items) ==
    [title |-> section.title,
     ordinal |-> section.ordinal,
     level |-> section.level,
     metadata |-> section.metadata,
     position |-> [start |-> section.start, end |-> section.end],
     blocks |-> [i \in 1..Len(section.blocks) |-> BuildBlock(blks, items, section.blocks[i])]]

\* PageData.build
BuildPage(p, blks, items) ==
    [built |-> TRUE,
     position |-> [start |-> 0, end |-> p.length],
     metadata |-> p.metadata,
     sections |-> [i \in 1..Len(p.sections) |-> BuildSection(p.sections[i], blks, items)]]

Build ==
    /\ pc = "build"
    /\ result' = BuildPage(page, blocks, listItems)
    /\ pc' = "done"
    /\ UNCHANGED <<lines, metadata, page, sections, blocks, blockOrdinal, blockIndex,
                   listItems, error, response, value, coerced,
                   requests, responses,
                   uiVars>>

(***************************************************************************)
(* The import worker's reply: the page on success, the error's message when *)
(* markdownImport raised.                                                  *)
(***************************************************************************)
Respond ==
    /\ pc \in {"done", "failed"}
    /\ response' = IF pc = "done"
                   THEN [type |-> "markdown", result |-> result, error |-> ""]
                   ELSE [type |-> "error", result |-> NoPage, error |-> error]
    /\ responses' = Append(responses, response')
    /\ pc' = "responded"
    /\ UNCHANGED <<lines, metadata, page, sections, blocks, blockOrdinal, blockIndex,
                   listItems, error, result, value, coerced, requests,
                   uiVars>>

NoResponse == [type |-> "none", result |-> NoPage, error |-> ""]

(***************************************************************************)
(* The import worker: it takes the posted ImportCommands one at a time, in *)
(* the order posted, runs markdownImport for a markdown command and posts  *)
(* one ImportResult for each command.                                      *)
(***************************************************************************)
MaxRequests == 2

NoMetadata ==
    [headings |-> <<>>, sections |-> <<>>, listItems |-> <<>>, tags |-> <<>>,
     links |-> <<>>, frontmatterLinks |-> <<>>]

MarkdownImport(contents, hints) == [type |-> "markdown", contents |-> contents, metadata |-> hints]

CanvasImport == [type |-> "canvas", contents |-> <<>>, metadata |-> NoMetadata]

\* A variant of NextCommand that takes the first command again.
NextCommandAlwaysFirst(posted, answered) == 1

\* The command the worker handles next: the first one not yet answered.
NextCommand(posted, answered) == Len(answered) + 1

\* The caller posts a command.
Submit(command) ==
    /\ Len(requests) < MaxRequests
    /\ requests' = Append(requests, command)
    /\ UNCHANGED <<pc, lines, metadata, page, sections, blocks, blockOrdinal, blockIndex,
                   listItems, error, result, response, value, coerced, responses,
                   uiVars>>

\* The worker's message handler starts on the next command: markdownImport is
\* entered with the command's contents and metadata; a canvas command fails as
\* unsupported.
Receive ==
    /\ pc \in {"idle", "responded"}
    /\ Len(responses) < Len(requests)
    /\ LET command == requests[NextCommand(requests, responses)]
       IN /\ lines' = command.contents
          /\ metadata' = command.metadata
          /\ pc' = IF command.type = "markdown" THEN "sections" ELSE "failed"
          /\ error' = IF command.type = "markdown" THEN "" ELSE "Unsupported import method."
    /\ page' = PageData(0)
    /\ sections' = <<>>
    /\ blocks' = <<>>
    /\ blockOrdinal' = 1
    /\ blockIndex' = 0
    /\ listItems' = <<>>
    /\ result' = NoPage
    /\ UNCHANGED <<response, value, coerced, requests, responses,
                   uiVars>>

(***************************************************************************)
(* Inputs and specifications.                                              *)
(***************************************************************************)
HintLines == 0..MaxLines

HeadingHints == [line : HintLines, heading : {"H"}, level : {1, 2}]

\* Hints with the given types whose end line is start + span for a span given.
BlockHints(types, spans) ==
    {h \in [type : types, start : HintLines, end : 0..(MaxLines + 2)] :
        (h.end - h.start) \in spans}

ItemHints(parents, spans) ==
    {h \in [start : HintLines, end : 0..(MaxLines + 2), parent : parents, task : {""}] :
        (h.end - h.start) \in spans}

\* The host reports each block and each list item once: no two hints of a list
\* start at the same line. The order of the hints is any.
DistinctStarts(hints) ==
    \A i, j \in 1..Len(hints) : i # j => hints[i].start # hints[j].start

HintLists(hints, n) == {s \in SeqsUpTo(hints, n) : DistinctStarts(s)}

Documents(texts) == UNION {[1..n -> texts] : n \in 1..MaxLines}

(***************************************************************************)
(* parseFrontmatter.  A JavaScript value is a record: t is its kind, s the *)
(* text of a string or native date (or the key of a map entry), n the      *)
(* number, xs the elements of a list or, for a map, its entries in key     *)
(* order (an entry holds its value as xs[1]).                              *)
(***************************************************************************)
Val(t, s, n, xs) == [t |-> t, s |-> s, n |-> n, xs |-> xs]

Null == Val("null", "", 0, <<>>)

Undefined == Val("undefined", "", 0, <<>>)

Bool(s) == Val("boolean", s, 0, <<>>)

Num(n) == Val("number", "", n, <<>>)

Str(s) == Val("string", s, 0, <<>>)

\* A native Date.
JsDate(s) == Val("jsdate", s, 0, <<>>)

\* A value whose typeof is neither object, number, boolean nor string.
Function == Val("function", "", 0, <<>>)

Array(xs) == Val("array", "", 0, xs)

Entry(key, v) == Val("entry", key, 0, <<v>>)

Object(entries) == Val("object", "", 0, entries)

\* The luxon DateTime and Duration and the Link the string parsers return.
Date(s) == Val("date", s, 0, <<>>)

Duration(s) == Val("duration", s, 0, <<>>)

Link(s) == Val("link", s, 0, <<>>)

\* typeof value
TypeOf(v) ==
    CASE v.t \in {"null", "array", "jsdate", "object", "date", "duration", "link"} -> "object"
      [] v.t = "undefined" -> "undefined"
      [] v.t = "boolean" -> "boolean"
      [] v.t = "number" -> "number"
      [] v.t = "string" -> "string"
      [] OTHER -> "function"

\* The enumerable properties for (let key in object) visits: the entries of a
\* plain object; of a DateTime, Duration or Link instance its own fields, of
\* which the model keeps the one that tells the class.
EnumerableFields(v) ==
    CASE v.t = "object" -> v.xs
      [] v.t = "date" -> <<Entry("isLuxonDateTime", Bool("true"))>>
      [] v.t = "duration" -> <<Entry("isLuxonDuration", Bool("true"))>>
      [] v.t = "link" -> <<Entry("path", Str(v.s))>>
      [] OTHER -> <<>>

\* PRIMITIVES.date, PRIMITIVES.duration and PRIMITIVES.link applied to a
\* string: whether the parse succeeds.
DateShaped(s) == s \in {"2024-01-01"}

DurationShaped(s) == s \in {"1d"}

LinkShaped(s) == s \in {"[[x]]"}

\* The string branch: the date, the duration and the link parser in this
\* order, the first success wins, else the string itself.
CoerceString(v) ==
    IF DateShaped(v.s) THEN Date(v.s)
    ELSE IF DurationShaped(v.s) THEN Duration(v.s)
    ELSE IF LinkShaped(v.s) THEN Link(v.s)
    ELSE v

\* DateTime.fromJSDate(value)
FromJSDate(v) == Date(v.s)

\* A variant of Backup that hands back what it was given.
BackupReturningValue(v) == v

\* "Backup if we don't understand the type": return null.
Backup(v) == Null

RECURSIVE parseFrontmatter(_)
parseFrontmatter(v) ==
    IF v.t \in {"null", "undefined"} THEN Null
    ELSE IF TypeOf(v) = "object" THEN
        IF v.t = "array"
        THEN Array([i \in 1..Len(v.xs) |-> parseFrontmatter(v.xs[i])])
        ELSE IF v.t = "jsdate" THEN FromJSDate(v)
        ELSE LET object == EnumerableFields(v)
             IN Object([i \in 1..Len(object) |->
                           Entry(object[i].s, parseFrontmatter(object[i].xs[1]))])
    ELSE IF TypeOf(v) = "number" THEN v
    ELSE IF TypeOf(v) = "boolean" THEN v
    ELSE IF TypeOf(v) = "string" THEN CoerceString(v)
    ELSE Backup(v)

\* parseFrontmatter(value) is called.
Coerce ==
    /\ pc = "coerce"
    /\ coerced' = parseFrontmatter(value)
    /\ pc' = "coerced"
    /\ UNCHANGED <<lines, metadata, page, sections, blocks, blockOrdinal, blockIndex,
                   listItems, error, result, response, value, requests, responses,
                   uiVars>>

\* parseFrontmatter is called on the value it returned.
CoerceAgain ==
    /\ pc = "coerced"
    /\ value' = coerced
    /\ coerced' = parseFrontmatter(coerced)
    /\ pc' = "recoerced"
    /\ UNCHANGED <<lines, metadata, page, sections, blocks, blockOrdinal, blockIndex,
                   listItems, error, result, response, requests, responses,
                   uiVars>>

(***************************************************************************)
(* DatacoreQueryView (src/src/ui/fields/editable-fields.tsx).  A renderer  *)
(* is known by the number of its creation; the view's children are the     *)
(* renderers attached to it, in the order attached.                        *)
(***************************************************************************)
MaxRenderers == 8

\* No renderer: the field is undefined.
NoRenderer == 0

\* Component.removeChild(child) of the host: the child leaves the children if
\* it is among them.
RemoveChild(children, child) ==
    LET at == {i \in 1..Len(children) : children[i] = child}
    IN IF at = {} THEN children
       ELSE SubSeq(children, 1, Min(at) - 1) \o SubSeq(children, Min(at) + 1, Len(children))

\* Component.addChild(child) of the host.
AddChild(children, child) == Append(children, child)

\* The view when its constructor has run: the fields as initialized, and the
\* script renderer that the constructor's rerender() made and attached.
NewView ==
    [internalState |-> [title |-> "", script |-> ""],
     jsRenderer |-> 1,
     settingsRenderer |-> NoRenderer,
     settingsShowing |-> FALSE,
     children |-> <<1>>,
     created |-> 1,
     loaded |-> FALSE]

\* rerender()
rerender(v) ==
    LET renderer == v.created + 1
    IN [v EXCEPT !.children = AddChild(RemoveChild(v.children, v.jsRenderer), renderer),
                 !.jsRenderer = renderer,
                 !.created = renderer]

\* onload(): a settings renderer is made, not attached, and the view rerenders.
onload(v) ==
    rerender([v EXCEPT !.settingsRenderer = v.created + 1,
                       !.created = v.created + 1,
                       !.loaded = TRUE])

\* toggleSettings(show)
toggleSettings(v, show) ==
    IF show
    THEN LET renderer == v.created + 1
         IN [v EXCEPT !.settingsShowing = TRUE,
                      !.settingsRenderer = renderer,
                      !.created = renderer,
                      !.children = AddChild(RemoveChild(v.children, v.jsRenderer), renderer)]
    ELSE rerender([v EXCEPT !.settingsShowing = FALSE,
                            !.children = RemoveChild(v.children, v.settingsRenderer)])

\* setState(state, result)
setState(v, st) ==
    LET assigned == [v EXCEPT !.internalState = st]
    IN IF ~v.settingsShowing THEN rerender(assigned) ELSE assigned

Onload ==
    /\ pc = "view"
    /\ ~view.loaded
    /\ view.created + 2 <= MaxRenderers
    /\ view' = onload(view)
    /\ UNCHANGED <<pc, lines, metadata, page, sections, blocks, blockOrdinal, blockIndex,
                   listItems, error, result, response, value, coerced, requests, responses,
                   state, action, group, predicate, filtered>>

Rerender ==
    /\ pc = "view"
    /\ view.loaded
    /\ view.created + 1 <= MaxRenderers
    /\ view' = rerender(view)
    /\ UNCHANGED <<pc, lines, metadata, page, sections, blocks, blockOrdinal, blockIndex,
                   listItems, error, result, response, value, coerced, requests, responses,
                   state, action, group, predicate, filtered>>

ToggleSettings(show) ==
    /\ pc = "view"
    /\ view.loaded
    /\ view.created + 1 <= MaxRenderers
    /\ view' = toggleSettings(view, show)
    /\ UNCHANGED <<pc, lines, metadata, page, sections, blocks, blockOrdinal, blockIndex,
                   listItems, error, result, response, value, coerced, requests, responses,
                   state, action, group, predicate, filtered>>

SetState(st) ==
    /\ pc = "view"
    /\ view.loaded
    /\ view.created + 1 <= MaxRenderers
    /\ view' = setState(view, st)
    /\ UNCHANGED <<pc, lines, metadata, page, sections, blocks, blockOrdinal, blockIndex,
                   listItems, error, result, response, value, coerced, requests, responses,
                   state, action, group, predicate, filtered>>

(***************************************************************************)
(* filterReducer and filterInGroup (src/src/ui/filter.tsx).  A row is a    *)
(* number, an array the list of its elements, a GroupElement a key with    *)
(* the list of its rows, which are rows or GroupElements.                  *)
(***************************************************************************)
FilterClear == [type |-> "filter-clear"]

FilterUpdate(newFilter, items) ==
    [type |-> "filter-update", newFilter |-> newFilter, items |-> items]

\* An action of a type the reducer does not know.
FilterOther == [type |-> "table-sort"]

NoAction == [type |-> "none"]

\* A variant of filterReducer that keeps the new filter text of an update.
filterReducerKeepingFilter(st, act) ==
    IF act.type = "filter-clear" THEN [st EXCEPT !.filteredItems = st.allItems]
    ELSE IF act.type = "filter-update"
    THEN [st EXCEPT !.filteredItems = act.items, !.filter = act.newFilter]
    ELSE st

\* filterReducer(state, action)
filterReducer(st, act) ==
    IF act.type = "filter-clear" THEN [st EXCEPT !.filteredItems = st.allItems]
    ELSE IF act.type = "filter-update" THEN [st EXCEPT !.filteredItems = act.items]
    ELSE st

\* dispatch(action) of useReducer: the state becomes filterReducer(state, action).
Dispatch(act) ==
    /\ pc = "reducer"
    /\ state' = filterReducer(state, act)
    /\ action' = act
    /\ UNCHANGED <<pc, lines, metadata, page, sections, blocks, blockOrdinal, blockIndex,
                   listItems, error, result, response, value, coerced, requests, responses,
                   view, group, predicate, filtered>>

GroupElement(key, rows) == Val("group", key, 0, rows)

\* Groupings.isElementGroup(entry)
isElementGroup(entry) == entry.t = "group"

\* Groupings.isGrouping(entry): every element of the array is a GroupElement
isGrouping(entry) == \A i \in 1..Len(entry.xs) : isElementGroup(entry.xs[i])

\* The depth of calls at which the engine raises a RangeError.
MaxStack == 4

Overflow == [thrown |-> TRUE, rows |-> <<>>]

RECURSIVE Concat(_)
Concat(seqs) == IF seqs = <<>> THEN <<>> ELSE Head(seqs) \o Concat(Tail(seqs))

\* group.filter(predicate)
RECURSIVE FilterRows(_, _)
FilterRows(rows, accepted) ==
    IF rows = <<>> THEN <<>>
    ELSE (IF Head(rows) \in accepted THEN <<Head(rows)>> ELSE <<>>)
            \o FilterRows(Tail(rows), accepted)

\* filterInGroup(group, predicate), called at the given depth of calls: the
\* rows of the array returned, or thrown when the calls go deeper than the
\* stack allows.
RECURSIVE filterInGroup(_, _, _)
filterInGroup(g, accepted, depth) ==
    IF depth > MaxStack THEN Overflow
    ELSE IF isElementGroup(g)
    THEN LET inner == filterInGroup(g, accepted, depth + 1)
         IN IF inner.thrown THEN Overflow
            ELSE [thrown |-> FALSE, rows |-> <<GroupElement(g.s, inner.rows)>>]
    ELSE IF isGrouping(g)
    THEN LET each == [i \in 1..Len(g.xs) |->
                         filterInGroup(Array(g.xs[i].xs), accepted, depth + 1)]
         IN IF \E i \in 1..Len(each) : each[i].thrown THEN Overflow
            ELSE [thrown |-> FALSE, rows |-> Concat([i \in 1..Len(each) |-> each[i].rows])]
    ELSE [thrown |-> FALSE, rows |-> FilterRows(g.xs, accepted)]

\* filterInGroup(group, predicate) is called.
FilterInGroup ==
    /\ pc = "filterInGroup"
    /\ LET out == filterInGroup(group, predicate, 1)
       IN /\ filtered' = Array(out.rows)
          /\ pc' = IF out.thrown THEN "failed" ELSE "filtered"
          /\ error' = IF out.thrown THEN "RangeError" ELSE error
    /\ UNCHANGED <<lines, metadata, page, sections, blocks, blockOrdinal, blockIndex,
                   listItems, result, response, value, coerced, requests, responses,
                   view, state, action, group, predicate>>

\* The components of the user interface before use.
NoUI ==
    /\ view = NewView
    /\ state = [allItems |-> Array(<<>>), filter |-> "", filteredItems |-> Array(<<>>)]
    /\ action = NoAction
    /\ group = Array(<<>>)
    /\ predicate = {}
    /\ filtered = Array(<<>>)

\* The state when markdownImport is entered with the given text and hints.
ImportInit(docs, headings, blockHints, itemHints, tagDefs, linkDefs, fmLinks) ==
    /\ pc = "sections"
    /\ lines \in docs
    /\ metadata \in [headings : headings, sections : blockHints, listItems : itemHints,
                     tags : tagDefs, links : linkDefs, frontmatterLinks : fmLinks]
    /\ page = PageData(0)
    /\ sections = <<>>
    /\ blocks = <<>>
    /\ blockOrdinal = 1
    /\ blockIndex = 0
    /\ listItems = <<>>
    /\ error = ""
    /\ result = NoPage
    /\ response = NoResponse
    /\ value = Null
    /\ coerced = Null
    /\ requests = <<>>
    /\ responses = <<>>
    /\ NoUI

Next ==
    \/ Sections
    \/ ClassifyBlock
    \/ AttachBlocks
    \/ ListPass1
    \/ ListPass2
    \/ Tags
    \/ Links
    \/ FrontmatterLinks
    \/ InlineFields
    \/ Build
    \/ Respond

\* Documents of blank and text lines under any headings, with one paragraph.
InitSections ==
    ImportInit(Documents({"", "text"}),
               SeqsUpTo(HeadingHints, MaxHeadings),
               {<<>>, <<[type |-> "paragraph", start |-> 0, end |-> 1]>>},
               {<<>>}, {<<>>}, {<<>>}, {<<>>})

SpecSections == InitSections /\ [][Next]_vars

\* Documents with one heading at most, under any one-line block hints.
InitBlocks ==
    ImportInit(Documents({"", "text"}),
               {<<>>, <<[line |-> 1, heading |-> "H", level |-> 1]>>},
               HintLists(BlockHints({"heading", "list", "code", "paragraph"}, {1}), MaxBlocks),
               {<<>>}, {<<>>}, {<<>>}, {<<>>})

SpecBlocks == InitBlocks /\ [][Next]_vars

\* Documents of fences, YAML and text under code hints of any extent.
InitData ==
    ImportInit(Documents({"", "text", "<fence>yaml:data", "<fence>", "a: 1", "a: ["}),
               {<<>>},
               HintLists(BlockHints({"code"}, {0, 1, 2}), MaxDataBlocks),
               {<<>>}, {<<>>}, {<<>>}, {<<>>})

SpecData == InitData /\ [][Next]_vars

\* Lists: a list block at line 0, at line 1 beside a paragraph, or at line 2,
\* under list item hints with any parent reference.
InitLists ==
    ImportInit(Documents({"text"}),
               {<<>>},
               {<<[type |-> "list", start |-> 0, end |-> 3]>>,
                <<[type |-> "list", start |-> 1, end |-> 2],
                  [type |-> "paragraph", start |-> 2, end |-> 3]>>,
                <<[type |-> "list", start |-> 2, end |-> 3]>>},
               HintLists(ItemHints((-MaxLines)..MaxLines, {1}), MaxItems),
               {<<>>}, {<<>>}, {<<>>})

SpecLists == InitLists /\ [][Next]_vars

OneOrNone(S) == {<<>>} \cup {<<x>> : x \in S}

\* Tags, links and inline fields in documents of MaxLines + 1 lines with one
\* heading at most, under one list block or two paragraphs, and with list items
\* nested, side by side or absent.
InitMeta ==
    ImportInit([1..(MaxLines + 1) -> {"text", "a:: 1", "A:: 2"}],
               {<<>>, <<[line |-> 1, heading |-> "H", level |-> 1]>>},
               {<<[type |-> "list", start |-> 0, end |-> MaxLines + 1]>>,
                <<[type |-> "paragraph", start |-> 0, end |-> 1],
                  [type |-> "paragraph", start |-> 1, end |-> 2]>>},
               {<<>>,
                <<[start |-> 0, end |-> MaxLines + 1, parent |-> -1, task |-> ""],
                  [start |-> 1, end |-> 2, parent |-> 0, task |-> ""]>>,
                <<[start |-> 0, end |-> 1, parent |-> -1, task |-> ""],
                  [start |-> 1, end |-> 2, parent |-> -1, task |-> ""]>>},
               OneOrNone([tag : {"x"}, line : HintLines]),
               OneOrNone([link : {"p"}, line : HintLines]),
               {<<[link |-> "q", displayText |-> "d"]>>})

SpecMeta == InitMeta /\ [][Next]_vars

\* Inline fields, two of them with the same key on one line, in documents of
\* MaxLines + 1 lines with one heading at most, under one list block or two
\* paragraphs, and with list items nested, side by side or absent.
InitFields ==
    ImportInit([1..(MaxLines + 1) -> {"A:: 2", "[a:: 1] [A:: 2]", "b:: 3"}],
               {<<>>, <<[line |-> 1, heading |-> "H", level |-> 1]>>},
               {<<[type |-> "list", start |-> 0, end |-> MaxLines + 1]>>,
                <<[type |-> "paragraph", start |-> 0, end |-> 1],
                  [type |-> "paragraph", start |-> 1, end |-> 2]>>},
               {<<>>,
                <<[start |-> 0, end |-> MaxLines + 1, parent |-> -1, task |-> ""],
                  [start |-> 1, end |-> 2, parent |-> 0, task |-> ""]>>,
                <<[start |-> 0, end |-> 1, parent |-> -1, task |-> ""],
                  [start |-> 1, end |-> MaxLines + 1, parent |-> -1, task |-> ""]>>},
               {<<>>}, {<<>>}, {<<>>})

SpecFields == InitFields /\ [][Next]_vars

\* The commands posted to the worker: a one-line note with a paragraph, a
\* two-line note with a heading and a list, a note whose yaml:data block is
\* empty, and a canvas.
WorkerCommands ==
    {MarkdownImport(<<"text">>,
                    [NoMetadata EXCEPT !.sections = <<[type |-> "paragraph", start |-> 0, end |-> 0]>>]),
     MarkdownImport(<<"text", "a:: 1">>,
                    [NoMetadata EXCEPT
                        !.headings = <<[line |-> 0, heading |-> "H", level |-> 1]>>,
                        !.sections = <<[type |-> "heading", start |-> 0, end |-> 0],
                                       [type |-> "list", start |-> 1, end |-> 1]>>,
                        !.listItems = <<[start |-> 1, end |-> 1, parent |-> -1, task |-> ""]>>]),
     MarkdownImport(<<"<fence>yaml:data", "<fence>">>,
                    [NoMetadata EXCEPT !.sections = <<[type |-> "code", start |-> 0, end |-> 1]>>]),
     CanvasImport}

InitWorker ==
    /\ pc = "idle"
    /\ requests = <<>>
    /\ responses = <<>>
    /\ NoUI
    /\ lines = <<>>
    /\ metadata = NoMetadata
    /\ page = PageData(0)
    /\ sections = <<>>
    /\ blocks = <<>>
    /\ blockOrdinal = 1
    /\ blockIndex = 0
    /\ listItems = <<>>
    /\ error = ""
    /\ result = NoPage
    /\ response = NoResponse
    /\ value = Null
    /\ coerced = Null

\* A step of the worker.
Work ==
    \/ Receive
    \/ Next

NextWorker ==
    \/ \E command \in WorkerCommands : Submit(command)
    \/ Work

\* The worker's handler runs to completion and the event loop hands it every
\* posted command.
SpecWorker == InitWorker /\ [][NextWorker]_vars /\ WF_vars(Work)

\* Block hints of every type, two lines long, over documents of MaxLines + 1
\* lines that are yaml:data fences or key: value lines.
InitClassify ==
    ImportInit([1..(MaxLines + 1) -> {"<fence>yaml:data", "a: 1"}],
               {<<>>},
               HintLists(BlockHints({"heading", "list", "code", "paragraph"}, {2}), MaxBlocks),
               {<<>>}, {<<>>}, {<<>>}, {<<>>})

SpecClassify == InitClassify /\ [][Next]_vars

\* Paragraphs of up to three lines anywhere in a document of MaxLines + 1
\* lines of text, the first of them blank or not, under headings at distinct
\* lines in the order of the document.
InitLayout ==
    ImportInit({[i \in 1..(MaxLines + 1) |-> "text"],
                [i \in 1..(MaxLines + 1) |-> IF i = 1 THEN "" ELSE "text"]},
               {hs \in SeqsUpTo({h \in HeadingHints : h.level = 1}, MaxHeadings) :
                   \A i \in 1..(Len(hs) - 1) : hs[i].line < hs[i + 1].line},
               HintLists(BlockHints({"paragraph"}, {0, 1, 2}), MaxBlocks),
               {<<>>}, {<<>>}, {<<>>}, {<<>>})

SpecLayout == InitLayout /\ [][Next]_vars

\* Code hints of two or three lines over documents of MaxLines + 1 lines that
\* are yaml:data fences, key: value lines or closing fences.
InitFence ==
    ImportInit([1..(MaxLines + 1) -> {"<fence>yaml:data", "a: 1", "<fence>"}],
               {<<>>},
               HintLists(BlockHints({"code"}, {2, 3}), MaxDataBlocks),
               {<<>>}, {<<>>}, {<<>>}, {<<>>})

SpecFence == InitFence /\ [][Next]_vars

\* Front-of-file links, one of them equal to a link of the text, in a document
\* of MaxLines + 1 lines of text with one heading at most, under one list block
\* or two paragraphs, and with list items nested, side by side or absent.
InitFrontLinks ==
    ImportInit({[i \in 1..(MaxLines + 1) |-> "text"]},
               {<<>>, <<[line |-> 1, heading |-> "H", level |-> 1]>>},
               {<<[type |-> "list", start |-> 0, end |-> MaxLines + 1]>>,
                <<[type |-> "paragraph", start |-> 0, end |-> 1],
                  [type |-> "paragraph", start |-> 1, end |-> 2]>>},
               {<<>>,
                <<[start |-> 0, end |-> MaxLines + 1, parent |-> -1, task |-> ""],
                  [start |-> 1, end |-> 2, parent |-> 0, task |-> ""]>>,
                <<[start |-> 0, end |-> 1, parent |-> -1, task |-> ""],
                  [start |-> 1, end |-> 2, parent |-> -1, task |-> ""]>>},
               {<<>>},
               OneOrNone([link : {"p"}, line : HintLines]),
               SeqsUpTo({[link |-> "p", displayText |-> ""],
                         [link |-> "q", displayText |-> "d"]}, MaxLen))

SpecFrontLinks == InitFrontLinks /\ [][Next]_vars

\* A tag, a link and inline fields of two keys in documents of MaxLines + 1
\* lines with one heading at most, under one list block or two paragraphs, and
\* with list items nested, side by side or absent.
InitBubble ==
    ImportInit([1..(MaxLines + 1) -> {"a:: 1", "b:: 3"}],
               {<<>>, <<[line |-> 1, heading |-> "H", level |-> 1]>>},
               {<<[type |-> "list", start |-> 1, end |-> MaxLines + 1]>>,
                <<[type |-> "paragraph", start |-> 0, end |-> 1],
                  [type |-> "paragraph", start |-> 1, end |-> 2]>>},
               {<<>>,
                <<[start |-> 1, end |-> MaxLines + 1, parent |-> -1, task |-> ""],
                  [start |-> 2, end |-> 3, parent |-> 1, task |-> ""]>>,
                <<[start |-> 1, end |-> 2, parent |-> -1, task |-> ""],
                  [start |-> 2, end |-> 3, parent |-> -1, task |-> ""]>>},
               OneOrNone([tag : {"x"}, line : HintLines]),
               OneOrNone([link : {"p"}, line : HintLines]),
               {<<>>, <<[link |-> "q", displayText |-> "d"]>>})

SpecBubble == InitBubble /\ [][Next]_vars

\* The import at rest, for the specifications of the user interface.
NoImport ==
    /\ lines = <<>>
    /\ metadata = NoMetadata
    /\ page = PageData(0)
    /\ sections = <<>>
    /\ blocks = <<>>
    /\ blockOrdinal = 1
    /\ blockIndex = 0
    /\ listItems = <<>>
    /\ error = ""
    /\ result = NoPage
    /\ response = NoResponse
    /\ value = Null
    /\ coerced = Null
    /\ requests = <<>>
    /\ responses = <<>>

\* The view as its constructor leaves it.
InitView ==
    /\ pc = "view"
    /\ NoImport
    /\ NoUI

ViewStates == [title : {"", "t"}, script : {"", "s"}]

NextView ==
    \/ Onload
    \/ Rerender
    \/ \E show \in BOOLEAN : ToggleSettings(show)
    \/ \E st \in ViewStates : SetState(st)

SpecView == InitView /\ [][NextView]_vars

Rows == {Num(1), Num(2)}

FlatArrays == {Array(xs) : xs \in SeqsUpTo(Rows, MaxLen)}

FilterActions ==
    {FilterClear, FilterOther}
    \cup {FilterUpdate(newFilter, items) : newFilter \in {"", "q"}, items \in FlatArrays}

\* The reducer starts from any rows and filter text, all rows showing.
InitReducer ==
    /\ pc = "reducer"
    /\ NoImport
    /\ view = NewView
    /\ state \in {[allItems |-> items, filter |-> text, filteredItems |-> items] :
                     items \in FlatArrays, text \in {"", "q"}}
    /\ action = NoAction
    /\ group = Array(<<>>)
    /\ predicate = {}
    /\ filtered = Array(<<>>)

NextReducer == \E act \in FilterActions : Dispatch(act)

SpecReducer == InitReducer /\ [][NextReducer]_vars

\* GroupElements over flat rows, and over one GroupElement over flat rows.
FlatGroups == {GroupElement("k", a.xs) : a \in FlatArrays}

NestedGroups == {GroupElement("n", <<e>>) : e \in FlatGroups}

\* The arguments of filterInGroup: flat arrays of rows, Groupings of up to
\* MaxLen GroupElements, of one nested GroupElement, and single GroupElements.
Groups ==
    FlatArrays
    \cup {Array(xs) : xs \in SeqsUpTo(FlatGroups, MaxLen)}
    \cup {Array(<<e>>) : e \in NestedGroups}
    \cup FlatGroups
    \cup NestedGroups

InitFilterInGroup ==
    /\ pc = "filterInGroup"
    /\ NoImport
    /\ view = NewView
    /\ state = [allItems |-> Array(<<>>), filter |-> "", filteredItems |-> Array(<<>>)]
    /\ action = NoAction
    /\ group \in Groups
    /\ predicate \in SUBSET Rows
    /\ filtered = Array(<<>>)

NextFilterInGroup == FilterInGroup

SpecFilterInGroup == InitFilterInGroup /\ [][NextFilterInGroup]_vars

(***************************************************************************)
(* Properties of the sections of the output Page.                          *)
(***************************************************************************)
Returned == pc \in {"done", "responded"} /\ result.built

FileLines == 0..(Len(lines) - 1)

\* The sections of the output Page whose Position [start, end) contains line L.
SectionsContaining(L) ==
    {i \in 1..Len(result.sections) :
        result.sections[i].position.start <= L /\ L < result.sections[i].position.end}

FirstSectionStart == Min({result.sections[i].position.start : i \in 1..Len(result.sections)})

HeadingsInFile == \A i \in 1..Len(metadata.headings) : metadata.headings[i].line < Len(lines)

\* C1, as stated (already for heading hints that lie inside the file): when the
\* output Page has a section, every line of the file lies in the Position of
\* exactly one section.
C1_PartitionLaw ==
    (Returned /\ HeadingsInFile /\ Len(result.sections) > 0) =>
        \A L \in FileLines : Cardinality(SectionsContaining(L)) = 1

\* C1, amended: when the output Page has a section, every line from the first
\* section's start to the end of the file lies in the Position of exactly one
\* section; the lines before the first section's start lie in no section and
\* are all blank.
C1_PartitionFromFirstSection ==
    (Returned /\ Len(result.sections) > 0) =>
        \A L \in FileLines :
            IF L >= FirstSectionStart
            THEN Cardinality(SectionsContaining(L)) = 1
            ELSE SectionsContaining(L) = {} /\ IsBlank(lines[L + 1])

C1_Witness ==
    /\ Returned
    /\ Len(result.sections) >= 2
    /\ FirstSectionStart > 0
    /\ FirstSectionStart < Len(lines)

\* C2 (already for heading hints that lie inside the file): in the Page's list of sections, start lines ascend and each section's
\* ordinal is greater than the ordinal of the section listed before it.
C2_SectionOrdinalsIncrease ==
    (Returned /\ HeadingsInFile) =>
        \A i \in 1..(Len(result.sections) - 1) :
            /\ result.sections[i].position.start <= result.sections[i + 1].position.start
            /\ result.sections[i].ordinal < result.sections[i + 1].ordinal

\* C10: with no heading hints and a non-blank line, the output Page has exactly
\* one section, of ordinal 0 and level 1, with Position [0, fileLength).
C10_SingleImplicitSection ==
    (Returned /\ metadata.headings = <<>> /\ \E L \in FileLines : ~IsBlank(lines[L + 1])) =>
        /\ Len(result.sections) = 1
        /\ result.sections[1].ordinal = 0
        /\ result.sections[1].level = 1
        /\ result.sections[1].position = [start |-> 0, end |-> Len(lines)]

C10_Witness ==
    /\ Returned
    /\ metadata.headings = <<>>
    /\ Len(lines) >= 2
    /\ IsBlank(lines[1])
    /\ ~IsBlank(lines[2])
    /\ Len(result.sections) = 1

(***************************************************************************)
(* Properties of the blocks of the output Page.                            *)
(***************************************************************************)
\* The blocks of the output Page, each with the index of its section.
OutputBlocks ==
    UNION {{[section |-> i, block |-> result.sections[i].blocks[j]] :
                j \in 1..Len(result.sections[i].blocks)} : i \in 1..Len(result.sections)}

BlockHintsInFile ==
    \A i \in 1..Len(metadata.sections) : metadata.sections[i].start < Len(lines)

\* The place in the host's block hints of the hint starting at the line.
HintIndex(start) == CHOOSE i \in 1..Len(metadata.sections) : metadata.sections[i].start = start

HintsAscending ==
    \A i \in 1..(Len(metadata.sections) - 1) :
        metadata.sections[i].start < metadata.sections[i + 1].start

\* C3, as stated (already for block hints that lie inside the file): of any two
\* blocks of the output Page the one with the smaller start line has the
\* smaller ordinal, and no two blocks share an ordinal.
C3_BlockOrdinalsFollowStartLines ==
    (Returned /\ BlockHintsInFile) =>
        \A a, b \in OutputBlocks :
            /\ a # b => a.block.ordinal # b.block.ordinal
            /\ a.block.position.start < b.block.position.start
                  => a.block.ordinal < b.block.ordinal

\* C3, amended: no two blocks of the output Page share an ordinal, and ordinals
\* follow the order of the host's block hints; so when the hints come in
\* ascending start-line order, the block with the smaller start line has the
\* smaller ordinal, in the same section or across sections.
C3_BlockOrdinalsFollowHintOrder ==
    Returned =>
        \A a, b \in OutputBlocks :
            /\ a # b => a.block.ordinal # b.block.ordinal
            /\ HintIndex(a.block.position.start) < HintIndex(b.block.position.start)
                  => a.block.ordinal < b.block.ordinal
            /\ (HintsAscending /\ a.block.position.start < b.block.position.start)
                  => a.block.ordinal < b.block.ordinal

C3_Witness ==
    /\ Returned
    /\ \E a, b \in OutputBlocks :
          /\ a.section # b.section
          /\ a.block.position.start < b.block.position.start
          /\ a.block.ordinal > b.block.ordinal

(***************************************************************************)
(* Failures of markdownImport.                                             *)
(***************************************************************************)
\* The hint is classified as a yaml:data block and its body is not valid YAML.
MalformedData(hint) ==
    /\ hint.type = "code"
    /\ IsYamlData(LineAt(lines, hint.start))
    /\ ParseYaml(Slice(lines, hint.start + 1, hint.end)) = "throw"

\* C6: an import never returns a Page when a yaml:data block has a body that is
\* not valid YAML; the iteration that parses such a body ends markdownImport
\* with the parse error and no Page, and the caller is answered with a failure
\* carrying that error.
C6_MalformedYamlAborts ==
    /\ Returned => \A i \in 1..Len(metadata.sections) : ~MalformedData(metadata.sections[i])
    /\ \A i \in 1..blockIndex :
          MalformedData(metadata.sections[i]) =>
              /\ i = blockIndex
              /\ pc \in {"failed", "responded"}
              /\ error = "YAMLParseError"
              /\ ~result.built
              /\ pc = "responded" =>
                    /\ response.type = "error"
                    /\ response.error = "YAMLParseError"
                    /\ ~response.result.built

C6_Witness ==
    /\ pc = "responded"
    /\ blockIndex >= 1
    /\ MalformedData(metadata.sections[blockIndex])
    /\ response.type = "error"

\* C7 (already for hints that lie inside the file): markdownImport raises only
\* when a yaml:data block has a body that is not valid YAML.
C7_OnlyMalformedYamlIsFatal ==
    (pc = "failed" /\ HeadingsInFile /\ BlockHintsInFile) =>
        \E i \in 1..Len(metadata.sections) : MalformedData(metadata.sections[i])

(***************************************************************************)
(* Properties of the list hierarchy.                                       *)
(***************************************************************************)
AfterSecondListPass ==
    pc \in {"tags", "links", "frontmatterLinks", "inlineFields", "build", "done", "responded"}
        /\ error = ""

\* The number of times the key occurs in the sequence.
Occurrences(seq, k) == Cardinality({i \in 1..Len(seq) : seq[i] = k})

\* C4: after the second list pass, an item B whose parent reference is a line
\* Y >= 0 at which a list item A starts is exactly once among A's children,
\* among the children of no other list item and among the items of no list
\* block.
C4_HierarchyLaw ==
    AfterSecondListPass =>
        \A i, j \in 1..Len(metadata.listItems) :
            LET B == metadata.listItems[i]
                A == metadata.listItems[j]
            IN (B.parent >= 0 /\ A.start = B.parent) =>
                  /\ Occurrences(listItems[A.start].elements, B.start) = 1
                  /\ \A k \in DOMAIN listItems :
                        k # A.start => Occurrences(listItems[k].elements, B.start) = 0
                  /\ \A k \in DOMAIN blocks : Occurrences(blocks[k].items, B.start) = 0

C4_Witness ==
    /\ AfterSecondListPass
    /\ \E i, j \in 1..Len(metadata.listItems) :
          /\ i # j
          /\ metadata.listItems[i].parent = metadata.listItems[j].start
          /\ metadata.listItems[i].start \in DOMAIN blocks
          /\ listItems[metadata.listItems[j].start].elements = <<metadata.listItems[i].start>>

\* The scalars, and the lists and maps over them, one level deep and wrapped
\* once more in a list or a map.
Scalars ==
    {Null, Undefined, Bool("true"), Bool("false"), Num(0), Num(1), Function,
     JsDate("1970-01-01")} \cup {Str(x) : x \in {"2024-01-01", "1d", "[[x]]", "two"}}

Flat ==
    Scalars
    \cup {Array(xs) : xs \in SeqsUpTo(Scalars, MaxLen)}
    \cup {Object(<<Entry("a", x)>>) : x \in Scalars}
    \cup {Object(<<Entry("a", x), Entry("B", y)>>) : x \in Scalars, y \in {Null, Str("1d")}}

FrontmatterValues ==
    Flat \cup {Array(<<x>>) : x \in Flat} \cup {Object(<<Entry("a", x)>>) : x \in Flat}

InitCoerce ==
    /\ pc = "coerce"
    /\ value \in FrontmatterValues
    /\ coerced = Null
    /\ requests = <<>>
    /\ responses = <<>>
    /\ NoUI
    /\ lines = <<>>
    /\ metadata = [headings |-> <<>>, sections |-> <<>>, listItems |-> <<>>,
                   tags |-> <<>>, links |-> <<>>, frontmatterLinks |-> <<>>]
    /\ page = PageData(0)
    /\ sections = <<>>
    /\ blocks = <<>>
    /\ blockOrdinal = 1
    /\ blockIndex = 0
    /\ listItems = <<>>
    /\ error = ""
    /\ result = NoPage
    /\ response = NoResponse

NextCoerce ==
    \/ Coerce
    \/ CoerceAgain

SpecCoerce == InitCoerce /\ [][NextCoerce]_vars

(***************************************************************************)
(* Properties of the tags, links and inline fields of the nodes.           *)
(***************************************************************************)
Extracted == pc \in {"build", "done", "responded"} /\ error = ""

\* The three granularities: the end line and the metadata of each node, by the
\* node's start line.
Granularities ==
    << [ends |-> SectionEnds(page, sections),
        meta |-> [k \in DOMAIN sections |-> page.sections[sections[k]].metadata]],
       [ends |-> BlockEnds(blocks), meta |-> [k \in DOMAIN blocks |-> blocks[k].metadata]],
       [ends |-> ItemEnds(listItems),
        meta |-> [k \in DOMAIN listItems |-> listItems[k].metadata]] >>

\* The nodes whose Position [start, end) contains line L.
Containing(ends, L) == {k \in DOMAIN ends : k <= L /\ L < ends[k]}

\* Of the nodes starting at or before line L the last one, if it contains L.
Owner(ends, L) == {k \in Containing(ends, L) : \A m \in DOMAIN ends : m <= L => m <= k}

Disjoint(ends) ==
    \A k, m \in DOMAIN ends : k < m => ends[k] <= m

HasTag(m, def) == NormalizeTag(def.tag) \in m.tags

HasLink(m, def) == \E i \in 1..Len(m.links) : m.links[i] = LinkInfer(def.link, "")

HasField(m, field) == \E i \in 1..Len(m.inlineFields) : m.inlineFields[i].field = field

DiscoveredFields == iterateInlineFields(lines, 0)

\* C5, as stated (already for tags and links): a tag or link discovered at line
\* L is attached to the page, and at each granularity to a node containing L
\* whenever some node of that granularity contains L.
C5_AttachedWhereverContained ==
    Extracted =>
        /\ \A i \in 1..Len(metadata.tags) :
              /\ HasTag(page.metadata, metadata.tags[i])
              /\ \A g \in 1..3 :
                    LET in == Containing(Granularities[g].ends, metadata.tags[i].line)
                    IN in # {} => \E k \in in : HasTag(Granularities[g].meta[k], metadata.tags[i])
        /\ \A i \in 1..Len(metadata.links) :
              /\ HasLink(page.metadata, metadata.links[i])
              /\ \A g \in 1..3 :
                    LET in == Containing(Granularities[g].ends, metadata.links[i].line)
                    IN in # {} => \E k \in in : HasLink(Granularities[g].meta[k], metadata.links[i])

\* The first of the discovered fields with the key of field n (compared in
\* lower case) among the fields with the given indices.
FirstOfKey(n, among) ==
    /\ n \in among
    /\ \A e \in among :
          e < n => Lower(DiscoveredFields[e].key) # Lower(DiscoveredFields[n].key)

\* C5, amended: a tag or link discovered at line L is attached to the page and,
\* at each granularity, to exactly the node with the greatest start <= L, if
\* that node's Position contains L: hence to the node containing L whenever the
\* nodes of the granularity are pairwise disjoint, but to no list item when L
\* lies in a list item after the end of a list item nested in it. The same
\* holds of an inline field, except that a node keeps only the first field of
\* each lowercased key.
C5_AttachedToOwner ==
    Extracted =>
        /\ \A i \in 1..Len(metadata.tags) : HasTag(page.metadata, metadata.tags[i])
        /\ \A i \in 1..Len(metadata.links) : HasLink(page.metadata, metadata.links[i])
        /\ \A n \in 1..Len(DiscoveredFields) :
              HasField(page.metadata, DiscoveredFields[n]) <=> FirstOfKey(n, DOMAIN DiscoveredFields)
        /\ \A g \in 1..3 :
              LET ends == Granularities[g].ends
                  meta == Granularities[g].meta
              IN \A k \in DOMAIN ends :
                    /\ \A i \in 1..Len(metadata.tags) :
                          /\ k \in Owner(ends, metadata.tags[i].line)
                                => HasTag(meta[k], metadata.tags[i])
                          /\ (Disjoint(ends) /\ k \in Containing(ends, metadata.tags[i].line))
                                => HasTag(meta[k], metadata.tags[i])
                    /\ \A x \in meta[k].tags :
                          \E i \in 1..Len(metadata.tags) :
                              /\ NormalizeTag(metadata.tags[i].tag) = x
                              /\ k \in Owner(ends, metadata.tags[i].line)
                    /\ \A i \in 1..Len(metadata.links) :
                          /\ HasLink(meta[k], metadata.links[i])
                                <=> \E j \in 1..Len(metadata.links) :
                                       /\ metadata.links[j].link = metadata.links[i].link
                                       /\ k \in Owner(ends, metadata.links[j].line)
                          /\ (Disjoint(ends) /\ k \in Containing(ends, metadata.links[i].line))
                                => HasLink(meta[k], metadata.links[i])
                    /\ \A n \in 1..Len(DiscoveredFields) :
                          HasField(meta[k], DiscoveredFields[n])
                              <=> FirstOfKey(n, {e \in DOMAIN DiscoveredFields :
                                                    k \in Owner(ends, DiscoveredFields[e].line)})

\* A tag on a line of a list item, after the end of the item nested in it.
C5_Witness ==
    /\ Extracted
    /\ \E i \in 1..Len(metadata.tags) :
          LET L == metadata.tags[i].line
          IN /\ Containing(ItemEnds(listItems), L) # {}
             /\ Owner(ItemEnds(listItems), L) = {}
             /\ \E k \in DOMAIN blocks : HasTag(blocks[k].metadata, metadata.tags[i])
             /\ \E k \in DOMAIN sections :
                   HasTag(page.sections[sections[k]].metadata, metadata.tags[i])
             /\ Len(DiscoveredFields) > 0

(***************************************************************************)
(* Properties of parseFrontmatter.                                         *)
(***************************************************************************)
\* C8: parseFrontmatter(parseFrontmatter(v)) equals parseFrontmatter(v).
C8_CoercionIdempotent ==
    pc = "recoerced" => coerced = value

RECURSIVE IsLiteral(_)
IsLiteral(v) ==
    \/ v.t \in {"null", "boolean", "number", "string", "date", "duration", "link"}
    \/ v.t = "array" /\ \A i \in 1..Len(v.xs) : IsLiteral(v.xs[i])
    \/ v.t = "object" /\ \A i \in 1..Len(v.xs) : IsLiteral(v.xs[i].xs[1])

\* out is what the coercion of v has to be.
RECURSIVE CoercionOf(_, _)
CoercionOf(v, out) ==
    CASE v.t \in {"null", "undefined", "function"} -> out = Null
      [] v.t \in {"boolean", "number"} -> out = v
      [] v.t = "string" ->
            \/ out = v
            \/ out.t \in {"date", "duration", "link"} /\ out.s = v.s
      [] v.t = "jsdate" -> out.t = "date"
      [] v.t = "array" ->
            /\ out.t = "array"
            /\ Len(out.xs) = Len(v.xs)
            /\ \A i \in 1..Len(v.xs) : CoercionOf(v.xs[i], out.xs[i])
      [] v.t = "object" ->
            /\ out.t = "object"
            /\ Len(out.xs) = Len(v.xs)
            /\ \A i \in 1..Len(v.xs) :
                  /\ out.xs[i].s = v.xs[i].s
                  /\ CoercionOf(v.xs[i].xs[1], out.xs[i].xs[1])
      [] OTHER -> FALSE

\* C9: for a value built from null, booleans, numbers, strings, native dates,
\* lists and maps, and values of an unrecognized type, parseFrontmatter returns
\* a Literal: lists element by element in order, maps key by key, numbers and
\* booleans unchanged, null for the unrecognized type.
C9_CoercionTotal ==
    pc = "coerced" => IsLiteral(coerced) /\ CoercionOf(value, coerced)

\* A list holding a map that holds a value of an unrecognized type was coerced.
C9_Witness ==
    /\ pc = "coerced"
    /\ value = Array(<<Object(<<Entry("a", Function), Entry("B", Str("1d"))>>)>>)
    /\ coerced = Array(<<Object(<<Entry("a", Null), Entry("B", Duration("1d"))>>)>>)

(***************************************************************************)
(* Further properties of the sections.                                     *)
(***************************************************************************)
AllBlank == \A L \in FileLines : IsBlank(lines[L + 1])

C13_InputsUnchanged ==
    [][HeadingsInFile => metadata' = metadata /\ lines' = lines]_vars

\* The sections of ordinal 0 in the output Page.
ImplicitSections == {i \in 1..Len(result.sections) : result.sections[i].ordinal = 0}

FirstHeadingStart == Min({metadata.headings[i].line : i \in 1..Len(metadata.headings)})

\* C16: with heading hints, the output Page has an implicit section exactly if
\* the smallest heading start is > 0 and a line before it is not blank; it is
\* the only one, of level 1, titled after the file, with Position
\* [0, firstHeadingStart).
C16_ImplicitSectionBeforeHeadings ==
    (Returned /\ metadata.headings # <<>>) =>
        /\ ImplicitSections # {}
              <=> /\ FirstHeadingStart > 0
                  /\ \E L \in FileLines : L < FirstHeadingStart /\ ~IsBlank(lines[L + 1])
        /\ Cardinality(ImplicitSections) <= 1
        /\ \A i \in ImplicitSections :
              /\ result.sections[i].level = 1
              /\ result.sections[i].title = FileTitle
              /\ result.sections[i].position = [start |-> 0, end |-> FirstHeadingStart]

\* An implicit section that ends before the end of the file.
C16_Witness ==
    /\ Returned
    /\ metadata.headings # <<>>
    /\ FirstHeadingStart < Len(lines)
    /\ ImplicitSections # {}

Ascending(hs) == \A i \in 1..(Len(hs) - 1) : hs[i].line <= hs[i + 1].line

SameHeadings(a, b) ==
    /\ Len(a) = Len(b)
    /\ \A x \in Range(a) \cup Range(b) :
          Cardinality({i \in 1..Len(a) : a[i] = x}) = Cardinality({i \in 1..Len(b) : b[i] = x})

\* C17: the section loop takes the host's headings in ascending order of start
\* line, and the i-th of them yields the section of ordinal i of the output
\* Page, with its title and level, from its start line to the start line of
\* the next heading, or to the file length for the last one.
C17_HeadingSections ==
    /\ [][pc = "sections" =>
             /\ Ascending(metadata'.headings)
             /\ SameHeadings(metadata.headings, metadata'.headings)]_vars
    /\ [](Returned =>
             \A i \in 1..Len(metadata.headings) :
                 /\ result.sections[i].ordinal = i
                 /\ result.sections[i].title = metadata.headings[i].heading
                 /\ result.sections[i].level = metadata.headings[i].level
                 /\ result.sections[i].position =
                       [start |-> metadata.headings[i].line,
                        end |-> IF i = Len(metadata.headings) THEN Len(lines)
                                ELSE metadata.headings[i + 1].line]
                 /\ \A j \in 1..Len(result.sections) :
                       result.sections[j].ordinal = i => j = i)

\* Two headings of different levels and start lines, in a file that holds both.
C17_Witness ==
    /\ Returned
    /\ Len(metadata.headings) = 2
    /\ metadata.headings[1].line < metadata.headings[2].line
    /\ metadata.headings[2].line < Len(lines)
    /\ metadata.headings[1].level # metadata.headings[2].level
    /\ result.sections[1].position.end = metadata.headings[2].line

(***************************************************************************)
(* Properties of the inline fields of a node.                              *)
(***************************************************************************)
\* The field was discovered before the other: on a smaller line, or on the
\* same line and earlier in it.
DiscoveredBefore(f, g) == f.line < g.line \/ (f.line = g.line /\ f.index < g.index)

\* The inline fields of metadata m are, key by key in lower case, the first
\* discovered of the fields of that key among the candidates, unaltered.
FirstOccurrenceKept(m, candidates) ==
    /\ \A i, j \in 1..Len(m.inlineFields) :
          Lower(m.inlineFields[i].field.key) = Lower(m.inlineFields[j].field.key) => i = j
    /\ \A i \in 1..Len(m.inlineFields) :
          /\ m.inlineFields[i].field \in candidates
          /\ \A f \in candidates :
                Lower(f.key) = Lower(m.inlineFields[i].field.key)
                    => ~DiscoveredBefore(f, m.inlineFields[i].field)
    /\ \A f \in candidates :
          \E i \in 1..Len(m.inlineFields) : Lower(m.inlineFields[i].field.key) = Lower(f.key)

\* C12: on the page and on every section, block and list item the keys of the
\* inline fields differ in lower case, and the field kept for a key is the
\* first discovered (smallest line, then earliest in the line) of the fields
\* with that key attached to the node.
C12_FirstInlineFieldWins ==
    Extracted =>
        /\ FirstOccurrenceKept(page.metadata, Range(DiscoveredFields))
        /\ \A g \in 1..3 :
              \A k \in DOMAIN Granularities[g].ends :
                  FirstOccurrenceKept(Granularities[g].meta[k],
                                      {f \in Range(DiscoveredFields) :
                                          k \in Owner(Granularities[g].ends, f.line)})

\* A list item keeps the first of two fields of one key on its first line,
\* and a later line of the item has the key again.
C12_Witness ==
    /\ Extracted
    /\ \E k \in DOMAIN listItems :
          \E i \in 1..Len(listItems[k].metadata.inlineFields) :
              LET kept == listItems[k].metadata.inlineFields[i].field
              IN /\ kept.key = "a"
                 /\ \E f, h \in Range(DiscoveredFields) :
                       /\ f.key = "A" /\ f.line = kept.line /\ f.index > kept.index
                       /\ h.key = "A" /\ h.line > kept.line
                       /\ k \in Owner(ItemEnds(listItems), h.line)

(***************************************************************************)
(* Properties of the worker's message protocol.                            *)
(***************************************************************************)
\* The response is a success carrying a Page or a failure carrying a message.
WellFormedResponse(r) ==
    \/ r.type = "markdown" /\ r.result.built /\ r.error = ""
    \/ r.type = "error" /\ r.error # "" /\ r.result = NoPage

RECURSIVE ItemStarts(_)
ItemStarts(item) ==
    {item.position.start} \cup UNION {ItemStarts(item.elements[i]) : i \in 1..Len(item.elements)}

\* The start lines of the list items found anywhere in the output Page.
OutputItems ==
    UNION {UNION {ItemStarts(ob.block.elements[i]) : i \in 1..Len(ob.block.elements)} :
               ob \in OutputBlocks}

\* The hint's parent reference names no List block, or no list item.
Orphan(hint) ==
    \/ hint.parent < 0 /\ ~((-hint.parent) \in DOMAIN blocks /\ blocks[-hint.parent].type = "list")
    \/ hint.parent >= 0 /\ hint.parent \notin DOMAIN listItems

\* C15: after the second list pass a list item is among the items of block K,
\* once, exactly if its parent reference is a negative -X, K starts at line X
\* and K is a List block; an item whose reference names no List block or no
\* list item is in no items or children collection, nowhere in the output
\* Page, and the import does not fail.
C15_TopLevelAndOrphanItems ==
    /\ pc # "failed"
    /\ AfterSecondListPass =>
          \A i \in 1..Len(metadata.listItems) :
              LET B == metadata.listItems[i]
              IN /\ \A K \in DOMAIN blocks :
                       Occurrences(blocks[K].items, B.start) =
                           IF B.parent < 0 /\ K = -B.parent /\ blocks[K].type = "list"
                           THEN 1 ELSE 0
                 /\ Orphan(B) =>
                       /\ \A k \in DOMAIN listItems : Occurrences(listItems[k].elements, B.start) = 0
                       /\ \A K \in DOMAIN blocks : Occurrences(blocks[K].items, B.start) = 0
                       /\ Returned => B.start \notin OutputItems

\* One item is a top-level item of a list block of the output Page, another
\* names a paragraph and is dropped.
C15_Witness ==
    /\ Returned
    /\ \E i, j \in 1..Len(metadata.listItems) :
          LET B == metadata.listItems[i]
              D == metadata.listItems[j]
          IN /\ B.parent < 0 /\ B.start \in OutputItems
             /\ D.parent < 0 /\ (-D.parent) \in DOMAIN blocks
             /\ blocks[-D.parent].type = "paragraph"
             /\ D.start \notin OutputItems

(***************************************************************************)
(* Properties of the classification of the block hints.                    *)
(***************************************************************************)
Classified ==
    pc \in {"lists", "hierarchy", "tags", "links", "frontmatterLinks", "inlineFields",
            "build", "done", "responded"} /\ error = ""

NonHeadingHints == {i \in 1..Len(metadata.sections) : metadata.sections[i].type # "heading"}

\* The variant a block hint is to be classified into.
Variant(hint) ==
    IF hint.type = "list" THEN "list"
    ELSE IF hint.type = "code" /\ IsYamlData(LineAt(lines, hint.start)) THEN "datablock"
    ELSE IF hint.type = "code" THEN "codeblock"
    ELSE hint.type

\* C18: after the classification loop there is one block for each hint that is
\* not a heading and none for a heading; the block is of the variant of its
\* hint (a generic block keeps the host's type), has the hint's lines, and its
\* ordinal is the number of non-heading hints up to and including its own; the
\* page-wide counter has advanced once for each of them. The output Page shows
\* the blocks with these types and ordinals.
C18_BlocksClassifiedOnce ==
    Classified =>
        /\ DOMAIN blocks = {metadata.sections[i].start : i \in NonHeadingHints}
        /\ blockOrdinal = Cardinality(NonHeadingHints) + 1
        /\ \A i \in NonHeadingHints :
              LET hint == metadata.sections[i]
                  block == blocks[hint.start]
              IN /\ block.type = Variant(hint)
                 /\ block.start = hint.start
                 /\ block.end = hint.end
                 /\ block.ordinal = Cardinality({j \in NonHeadingHints : j <= i})
        /\ Returned =>
              \A ob \in OutputBlocks :
                  /\ ob.block.position.start \in DOMAIN blocks
                  /\ ob.block.type = blocks[ob.block.position.start].type
                  /\ ob.block.ordinal = blocks[ob.block.position.start].ordinal

\* A heading hint and after it a yaml:data block, which gets ordinal 1, in the
\* output Page.
C18_Witness ==
    /\ Returned
    /\ Len(metadata.sections) = 2
    /\ metadata.sections[1].type = "heading"
    /\ \E ob \in OutputBlocks :
          /\ ob.block.type = "datablock"
          /\ ob.block.ordinal = 1
          /\ ob.block.position.start = metadata.sections[2].start

(***************************************************************************)
(* Properties of the blocks of a section.                                  *)
(***************************************************************************)
\* The number of times the block starting at line k is listed in section i of
\* the output Page.
Listed(i, k) ==
    Cardinality({j \in 1..Len(result.sections[i].blocks) :
                    result.sections[i].blocks[j].position.start = k})

\* C19: each classified block is listed once in the section of the output Page
\* whose Position contains the block's start line and in no other section; a
\* block whose start line no section contains is listed nowhere, and the import
\* does not fail.
C19_BlockInContainingSection ==
    /\ pc # "failed"
    /\ Returned =>
          \A k \in DOMAIN blocks :
              \A i \in 1..Len(result.sections) :
                  Listed(i, k) = IF i \in SectionsContaining(k) THEN 1 ELSE 0

\* A block on the blank line before the first heading is dropped, another one
\* is listed in the second section.
C19_Witness ==
    /\ Returned
    /\ Len(result.sections) = 2
    /\ \E k, m \in DOMAIN blocks :
          /\ SectionsContaining(k) = {}
          /\ \A i \in 1..Len(result.sections) : Listed(i, k) = 0
          /\ Listed(2, m) = 1

\* Half-open line ranges that share no line and do not lie in one another.
Apart(a, b) == a.end <= b.start \/ b.end <= a.start

\* The host's block hints as its parser reports them: inside the file, apart
\* from one another, none across the line of a heading.
WellFormedBlockHints ==
    \A i \in 1..Len(metadata.sections) :
        LET hint == metadata.sections[i]
        IN /\ hint.end <= Len(lines)
           /\ \A j \in 1..Len(metadata.sections) : i # j => Apart(hint, metadata.sections[j])
           /\ \A h \in 1..Len(metadata.headings) :
                 ~(hint.start < metadata.headings[h].line /\ metadata.headings[h].line < hint.end)

\* C20, as stated (already for hints that start inside the file): in the output
\* Page a block listed in section S starts at or after S.start and ends at or
\* before S.end, and two distinct blocks are apart.
C20_BlocksAlwaysInsideSections ==
    (Returned /\ HeadingsInFile /\ BlockHintsInFile) =>
        /\ \A ob \in OutputBlocks :
              /\ result.sections[ob.section].position.start <= ob.block.position.start
              /\ ob.block.position.end <= result.sections[ob.section].position.end
        /\ \A oa, ob \in OutputBlocks :
              oa # ob => Apart(oa.block.position, ob.block.position)

\* C20, amended: when the host's block hints are well formed (inside the file,
\* apart from one another, none across the line of a heading), then in the
\* output Page a block listed in section S starts at or after S.start and ends
\* at or before S.end, and two distinct blocks are apart; the import copies the
\* lines of a hint and checks none of this.
C20_BlocksInsideSections ==
    (Returned /\ WellFormedBlockHints) =>
        /\ \A ob \in OutputBlocks :
              /\ result.sections[ob.section].position.start <= ob.block.position.start
              /\ ob.block.position.end <= result.sections[ob.section].position.end
        /\ \A oa, ob \in OutputBlocks :
              oa # ob => Apart(oa.block.position, ob.block.position)

\* Two blocks in two sections, the first ending where its section ends.
C20_Witness ==
    /\ Returned
    /\ WellFormedBlockHints
    /\ \E oa, ob \in OutputBlocks :
          /\ oa.section # ob.section
          /\ oa.block.position.end = result.sections[oa.section].position.end
          /\ oa.block.position.end > oa.block.position.start + 1

(***************************************************************************)
(* Properties of code and data blocks.                                     *)
(***************************************************************************)
\* C21: a Code block of the output Page with Position [s, e) whose first line
\* matches the fence-open pattern has style fenced and content Position
\* [s + 1, e - 1); one whose first line does not match has style indent and
\* its content Position is its Position.
C21_CodeContentPosition ==
    Returned =>
        \A ob \in OutputBlocks :
            ob.block.type = "codeblock" =>
                LET s == ob.block.position.start
                    e == ob.block.position.end
                IN IF IsFence(LineAt(lines, s))
                   THEN /\ ob.block.style = "fenced"
                        /\ ob.block.contentPosition = [start |-> s + 1, end |-> e - 1]
                   ELSE /\ ob.block.style = "indent"
                        /\ ob.block.contentPosition = [start |-> s, end |-> e]

\* A fenced Code block over two lines, whose content Position is empty.
C21_Witness ==
    /\ Returned
    /\ \E ob \in OutputBlocks :
          /\ ob.block.type = "codeblock"
          /\ ob.block.style = "fenced"
          /\ ob.block.position = [start |-> 0, end |-> 2]
          /\ ob.block.contentPosition = [start |-> 1, end |-> 1]

\* The hint is a yaml:data block with Position [s, e) inside the file whose
\* last line, e - 1, is a closing fence after the opening fence at line s.
FencedData(hint) ==
    /\ hint.type = "code"
    /\ hint.start + 2 <= hint.end
    /\ hint.end <= Len(lines)
    /\ IsYamlData(LineAt(lines, hint.start))
    /\ LineAt(lines, hint.end - 1) = "<fence>"

\* The lines strictly between the first and the last line of Position [s, e).
Between(hint) == Slice(lines, hint.start + 1, hint.end - 1)

\* C22: for a Data block with Position [s, e) the text parsed as YAML is the
\* lines strictly between line s and line e - 1, so a block whose lines
\* strictly between its fences are key: value lines is classified as a Data
\* block holding their entries.
C22_DataBodyBetweenFences ==
    \A i \in 1..blockIndex :
        LET hint == metadata.sections[i]
        IN (FencedData(hint) /\ ParseYaml(Between(hint)) = "map") =>
              /\ hint.start \in DOMAIN blocks
              /\ blocks[hint.start].type = "datablock"
              /\ blocks[hint.start].data = "entries"

(***************************************************************************)
(* Properties of the front-of-file links.                                  *)
(***************************************************************************)
\* The links of the front-of-file list, as Link.infer makes them.
FrontLinks ==
    {LinkInfer(metadata.frontmatterLinks[i].link, metadata.frontmatterLinks[i].displayText) :
        i \in 1..Len(metadata.frontmatterLinks)}

\* The links of the text, as Link.infer makes them.
TextLinks == {LinkInfer(metadata.links[i].link, "") : i \in 1..Len(metadata.links)}

\* C23: the pass over the front-of-file links adds each of them that the page
\* does not have yet to the end of the page's links and changes nothing else:
\* the sections, blocks and list items, their links included, stay as they
\* were, and so do the page's tags and inline fields; in the output Page a
\* link of a section, block or list item is a link of the text.
C23_FrontmatterLinksOnPageOnly ==
    /\ [][pc = "frontmatterLinks" =>
             /\ blocks' = blocks
             /\ listItems' = listItems
             /\ sections' = sections
             /\ page'.sections = page.sections
             /\ page'.metadata.tags = page.metadata.tags
             /\ page'.metadata.inlineFields = page.metadata.inlineFields
             /\ SubSeq(page'.metadata.links, 1, Len(page.metadata.links)) = page.metadata.links
             /\ Range(page'.metadata.links) = Range(page.metadata.links) \cup FrontLinks]_vars
    /\ [](Extracted =>
             \A g \in 1..3 :
                 \A k \in DOMAIN Granularities[g].ends :
                     Range(Granularities[g].meta[k].links) \subseteq TextLinks)

\* Two front-of-file links were processed, one of them new to the page, while
\* a section, a block and a list item hold the link of the text.
C23_Witness ==
    /\ Extracted
    /\ Len(metadata.frontmatterLinks) = 2
    /\ Len(page.metadata.links) = 2
    /\ \A g \in 1..3 :
          \E k \in DOMAIN Granularities[g].ends : Granularities[g].meta[k].links # <<>>

(***************************************************************************)
(* Properties of the order of the children of a list block or list item.   *)
(***************************************************************************)
\* The children collections: the items of each block and the elements of each
\* list item, as sequences of start lines.
ChildLists ==
    {blocks[K].items : K \in DOMAIN blocks} \cup {listItems[k].elements : k \in DOMAIN listItems}

\* The place in the host's list-item hints of the hint starting at the line.
ItemHintIndex(start) ==
    CHOOSE i \in 1..Len(metadata.listItems) : metadata.listItems[i].start = start

ItemHintsAscending ==
    \A i \in 1..(Len(metadata.listItems) - 1) :
        metadata.listItems[i].start < metadata.listItems[i + 1].start

\* C24, as stated: of two items with the same resolved parent, the one that
\* comes first in the host's list-item hints comes first among the parent's
\* children.
C24_ChildrenInHintOrder ==
    AfterSecondListPass =>
        \A c \in ChildLists :
            \A i, j \in 1..Len(c) :
                i < j => ItemHintIndex(c[i]) < ItemHintIndex(c[j])

\* C24, amended: of two items with the same resolved parent, the one with the
\* smaller start line comes first among the parent's children, in the builders
\* and in the output Page; this is the order of the host's hints when the hints
\* come in ascending order of start line.
C24_ChildrenInStartLineOrder ==
    /\ AfterSecondListPass =>
          \A c \in ChildLists :
              \A i, j \in 1..Len(c) :
                  i < j =>
                      /\ c[i] < c[j]
                      /\ ItemHintsAscending => ItemHintIndex(c[i]) < ItemHintIndex(c[j])
    /\ Returned =>
          \A ob \in OutputBlocks :
              \A i, j \in 1..Len(ob.block.elements) :
                  i < j => ob.block.elements[i].position.start
                              < ob.block.elements[j].position.start

\* Two top-level items of a list block of the output Page that the host
\* reported in the other order.
C24_Witness ==
    /\ Returned
    /\ \E ob \in OutputBlocks :
          /\ Len(ob.block.elements) = 2
          /\ ItemHintIndex(ob.block.elements[1].position.start)
                > ItemHintIndex(ob.block.elements[2].position.start)

(***************************************************************************)
(* Properties of the list tree that page.build() walks.                    *)
(***************************************************************************)
\* The start lines of the children of the list item starting at line k.
Children(k) == Range(listItems[k].elements)

\* The list items found from the items S in at most n steps down.
RECURSIVE ReachFrom(_, _)
ReachFrom(S, n) ==
    IF n = 0 THEN S
    ELSE ReachFrom(S \cup UNION {Children(k) : k \in S}, n - 1)

\* The list items ListBlockData.build comes to: the items of the list blocks
\* and all items below them.
Reachable ==
    ReachFrom(UNION {Range(blocks[K].items) : K \in DOMAIN blocks}, Cardinality(DOMAIN listItems))

OwnDescendant(k) == k \in ReachFrom(Children(k), Cardinality(DOMAIN listItems))

\* The number of children collections, of blocks and of items, that hold k.
Parents(k) ==
    Cardinality({K \in DOMAIN blocks : Occurrences(blocks[K].items, k) > 0})
        + Cardinality({m \in DOMAIN listItems : Occurrences(listItems[m].elements, k) > 0})

RECURSIVE SumOf(_)
SumOf(ns) == IF ns = <<>> THEN 0 ELSE Head(ns) + SumOf(Tail(ns))

\* The number of times an item starting at the line is found in the built
\* item and below it.
RECURSIVE CountIn(_, _)
CountIn(item, start) ==
    (IF item.position.start = start THEN 1 ELSE 0)
        + SumOf([i \in 1..Len(item.elements) |-> CountIn(item.elements[i], start)])

\* The number of times an item starting at the line is found in the output
\* Page: in the blocks of the sections, as the Page lists them.
CountInPage(start) ==
    SumOf([i \in 1..Len(result.sections) |->
              SumOf([j \in 1..Len(result.sections[i].blocks) |->
                        SumOf([e \in 1..Len(result.sections[i].blocks[j].elements) |->
                                  CountIn(result.sections[i].blocks[j].elements[e], start)])])])

\* C25: whatever the parent references, self-referential and cyclic ones
\* included, after the second list pass every list item is in one children
\* collection at most, once, and no item found from the items of a list block
\* is below itself; so the build comes to an end, and each list item is found
\* at most once in the output Page.
C25_BuildTerminates ==
    /\ AfterSecondListPass =>
          /\ \A k \in DOMAIN listItems :
                /\ Parents(k) <= 1
                /\ \A c \in ChildLists : Occurrences(c, k) <= 1
          /\ \A k \in Reachable : ~OwnDescendant(k)
    /\ pc = "build" => ENABLED Build
    /\ Returned => \A k \in DOMAIN listItems : CountInPage(k) <= 1

\* A list item that is its own parent beside a top-level item of a list block
\* of the output Page.
C25_Witness ==
    /\ Returned
    /\ \E k, m \in DOMAIN listItems :
          /\ listItems[k].parentLine = k
          /\ OwnDescendant(k)
          /\ CountInPage(k) = 0
          /\ CountInPage(m) = 1

(***************************************************************************)
(* Properties of the page's metadata against that of its nodes.            *)
(***************************************************************************)
\* The metadata of a built list item and of the items below it.
RECURSIVE ItemMetadata(_)
ItemMetadata(item) ==
    {item.metadata} \cup UNION {ItemMetadata(item.elements[i]) : i \in 1..Len(item.elements)}

\* The metadata of every section, block and list item of the output Page.
NodeMetadata ==
    {result.sections[i].metadata : i \in 1..Len(result.sections)}
    \cup {ob.block.metadata : ob \in OutputBlocks}
    \cup UNION {UNION {ItemMetadata(ob.block.elements[i]) : i \in 1..Len(ob.block.elements)} :
                   ob \in OutputBlocks}

\* The metadata of every section, block and list item under construction.
BuilderMetadata ==
    UNION {{Granularities[g].meta[k] : k \in DOMAIN Granularities[g].ends} : g \in 1..3}

FieldKeys(m) == {m.inlineFields[i].lower : i \in 1..Len(m.inlineFields)}

Covers(whole, part) ==
    /\ part.tags \subseteq whole.tags
    /\ Range(part.links) \subseteq Range(whole.links)
    /\ FieldKeys(part) \subseteq FieldKeys(whole)

\* C26: in every output Page each tag and each link of a section, block or
\* list item is among the tags and links of the page, and each inline-field
\* key of a section, block or list item is an inline-field key of the page;
\* the same holds of the builders after each of the extraction passes.
C26_PageCoversNodes ==
    /\ Returned => \A m \in NodeMetadata : Covers(result.metadata, m)
    /\ pc \in {"links", "frontmatterLinks", "inlineFields", "build"} =>
          \A m \in BuilderMetadata : Covers(page.metadata, m)

\* A list item of the output Page with a tag, a link and an inline field, and
\* the page has an inline-field key more than the item.
C26_Witness ==
    /\ Returned
    /\ \E ob \in OutputBlocks :
          \E i \in 1..Len(ob.block.elements) :
              LET m == ob.block.elements[i].metadata
              IN /\ m.tags # {}
                 /\ m.links # <<>>
                 /\ m.inlineFields # <<>>
                 /\ FieldKeys(m) # FieldKeys(result.metadata)

(***************************************************************************)
(* Properties of the parent reference 0.                                   *)
(***************************************************************************)
\* C27: a list-item hint whose parent reference is 0 is resolved against the
\* list items: after the second list pass it is once among the children of the
\* list item starting at line 0 (its own, if it starts at line 0) when there is
\* such an item, among the children of no other item and among the items of no
\* list block; so a block starting at line 0 has no items at any time, and
\* none in the output Page.
C27_ParentZeroIsAnItem ==
    /\ 0 \in DOMAIN blocks => blocks[0].items = <<>>
    /\ AfterSecondListPass =>
          \A i \in 1..Len(metadata.listItems) :
              LET B == metadata.listItems[i]
              IN B.parent = 0 =>
                    /\ \A K \in DOMAIN blocks : Occurrences(blocks[K].items, B.start) = 0
                    /\ \A k \in DOMAIN listItems :
                          Occurrences(listItems[k].elements, B.start) = IF k = 0 THEN 1 ELSE 0
    /\ Returned =>
          \A ob \in OutputBlocks : ob.block.position.start = 0 => ob.block.elements = <<>>

\* A list block starting at line 0 is in the output Page without items, while
\* the item at line 0 and the item after it have the parent reference 0 and are
\* children of the item at line 0.
C27_Witness ==
    /\ Returned
    /\ \E ob \in OutputBlocks :
          /\ ob.block.type = "list"
          /\ ob.block.position.start = 0
          /\ ob.block.elements = <<>>
    /\ Len(metadata.listItems) = 2
    /\ \A i \in 1..2 : metadata.listItems[i].parent = 0
    /\ 0 \in DOMAIN listItems
    /\ Len(listItems[0].elements) = 2
    /\ listItems[0].elements[1] = 0

(***************************************************************************)
(* Properties of DatacoreQueryView.                                        *)
(***************************************************************************)
\* The renderer that is to show: the settings renderer when the settings are
\* showing, else the script renderer.
CurrentRenderer ==
    IF view.settingsShowing THEN view.settingsRenderer ELSE view.jsRenderer

\* C28: once the view is loaded, after any calls of rerender, toggleSettings
\* and setState exactly one renderer is attached to the view, the current
\* settings renderer when the settings are showing and the current script
\* renderer otherwise; no replaced renderer is attached.
C28_OneRendererAttached ==
    (pc = "view" /\ view.loaded) => view.children = <<CurrentRenderer>>

(***************************************************************************)
(* Properties of filterReducer and filterInGroup.                          *)
(***************************************************************************)
\* C29: no action changes allItems or filter, so both stay as they were at the
\* start; right after a filter-clear filteredItems is allItems, right after a
\* filter-update it is the items of the action, and an action of another type
\* leaves the state as it was.
C29_ReducerKeepsItemsAndFilter ==
    /\ [][pc = "reducer" =>
             /\ state'.allItems = state.allItems
             /\ state'.filter = state.filter
             /\ action'.type \notin {"filter-clear", "filter-update"} => state' = state]_vars
    /\ [](action.type = "filter-clear" => state.filteredItems = state.allItems)
    /\ [](action.type = "filter-update" => state.filteredItems = action.items)

\* An update with a new filter text and other items was dispatched.
C29_Witness ==
    /\ action.type = "filter-update"
    /\ action.newFilter # state.filter
    /\ action.items # state.allItems
    /\ state.filteredItems = action.items
    /\ Len(state.allItems.xs) = 2

\* The rows at the leaves of an array, a Grouping or a GroupElement.
RECURSIVE LeafRows(_)
LeafRows(v) ==
    IF v.t = "number" THEN {v}
    ELSE UNION {LeafRows(v.xs[i]) : i \in 1..Len(v.xs)}

\* C30: a call of filterInGroup on a flat array of rows, a Grouping or a
\* single GroupElement returns, and every leaf row of what it returns is a
\* leaf row of the argument that the predicate accepts.
C30_FilterInGroupReturns ==
    /\ pc # "failed"
    /\ pc = "filtered" => LeafRows(filtered) \subseteq (LeafRows(group) \cap predicate)

====
